---- MODULE Spec2Model ----
(***************************************************************************)
(* Model of agent/call-scd.c: the gpg-agent side of the scdaemon           *)
(* connection handling (start_scd, unlock_scd, wait_child_thread,          *)
(* agent_reset_scd, agent_card_killscd and the card operations built on    *)
(* them).  The last part models blob_filecopy of kbx/keybox-update.c.      *)
(*                                                                         *)
(* Scheduling.  The threads are nPth threads: one thread runs at a time    *)
(* and control passes to another thread only where the running thread      *)
(* blocks (call-scd.c:223-225 brackets waitpid with npth_unprotect /       *)
(* npth_protect for exactly that reason).  The blocking points of this     *)
(* file are npth_mutex_lock on a busy mutex, waitpid, and the libassuan    *)
(* calls that do I/O (assuan_socket_connect, assuan_pipe_connect,          *)
(* assuan_transact).  Each action below is the code between two blocking   *)
(* points; the value of pc names the blocking point a task is at.          *)
(*                                                                         *)
(* The mutex is initialised with default attributes (call-scd.c:131), so   *)
(* npth_mutex_lock and npth_mutex_unlock do not fail; the branches that    *)
(* only log such a failure are not modelled.                               *)
(***************************************************************************)
EXTENDS Integers, FiniteSets, Sequences

\* Bounds of the model.
NumTasks == 2
MaxConn == 3
MaxDaemons == 2
MaxChunks == 1
\* Status lines: the longest key token, and how far the length of a
\* cryptogram lies from the shortest one that is accepted.
MaxKeyLen == 4
HexSpread == 2
\* The status lines recorded in one transaction.
MaxLines == 1
\* The lines of one response that are looked at one by one.
MaxResponse == 3
\* The blobs of a keybox file, and the blobs there are.
MaxBlobs == 2

\* The null pointer, and the unlocked mutex.
NULL == 0

Tasks == 1 .. NumTasks
Ctxs == 1 .. MaxConn
Daemons == 1 .. MaxDaemons

\* gpg-error codes returned by the functions of this file.
OK == "0"
GPG_ERR_INTERNAL == "GPG_ERR_INTERNAL"
GPG_ERR_NOT_SUPPORTED == "GPG_ERR_NOT_SUPPORTED"
GPG_ERR_NO_SCDAEMON == "GPG_ERR_NO_SCDAEMON"
GPG_ERR_ENOMEM == "GPG_ERR_ENOMEM"
GPG_ERR_GENERAL == "GPG_ERR_GENERAL"
GPG_ERR_INV_VALUE == "GPG_ERR_INV_VALUE"
GPG_ERR_NO_DATA == "GPG_ERR_NO_DATA"
GPG_ERR_TOO_LARGE == "GPG_ERR_TOO_LARGE"
GPG_ERR_ASS_PARAMETER == "GPG_ERR_ASS_PARAMETER"
GPG_ERR_CONFLICT == "GPG_ERR_CONFLICT"
GPG_ERR_ASS_UNKNOWN_INQUIRE == "GPG_ERR_ASS_UNKNOWN_INQUIRE"
\* An error the PIN callback or an inquiry passed to the client ends with.
GPG_ERR_CANCELED == "GPG_ERR_CANCELED"
\* An error code reported by the daemon or the transport for a transaction.
GPG_ERR_CARD == "GPG_ERR_CARD"
\* The system error of a failed fflush or npth_create.
SYSERROR == "SYSERROR"
\* gpg_err_code_from_errno (ENOENT).
GPG_ERR_ENOENT == "GPG_ERR_ENOENT"
GPG_ERR_INV_LENGTH == "GPG_ERR_INV_LENGTH"
\* The error of gcry_cipher_open, gcry_cipher_setkey or gcry_cipher_decrypt.
CIPHER_ERROR == "CIPHER_ERROR"

VARIABLES
  scd_local,                \* ctrl->scd_local of each task's ctrl
  scd_local_list,           \* the list anchored at scd_local_list, head first
  start_scd_lock,           \* NULL, or the task holding the mutex
  socket_name,              \* NULL, or the daemon whose socket is cached
  primary_scd_ctx,          \* NULL, or the context of the primary connection
  primary_scd_ctx_reusable, \* the reusable flag
  live,                     \* the assuan contexts allocated and not released
  peer,                     \* the daemon a context is connected to, or NULL
  launched,                 \* the number of daemons launched so far
  running,                  \* the daemon processes that have not exited
  reaper,                   \* position of the wait_child_thread of each daemon
  cache,                    \* daemons a PIN of which is in the PIN cache
  disable_scdaemon,         \* opt.disable_scdaemon
  pc,                       \* position of each task
  op,                       \* the function each task is running
  via,                      \* the way the start_scd a task runs got, or tried
                            \* to get, its connection ("none" before that and
                            \* once a transaction was made on the connection)
  ctx,                      \* start_scd's local variable ctx
  err,                      \* start_scd's local err; the rc given to unlock_scd
  left,                     \* transactions a card operation has still to make
  ret,                      \* the value the last call of a task returned
  pre,                      \* in_use of the session when start_scd or
                            \* unlock_scd was last entered by the task
  acquired,                 \* a start_scd of the task succeeded, no unlock_scd since
  status,                   \* the last status line the status callback of the
                            \* task's transaction was called with, and what
                            \* the callback did (NoStatus: none recorded)
  exchange,                 \* the transactions of one card operation
                            \* looked at line by line: the commands sent,
                            \* what assuan_transact returned, the lines that
                            \* arrived, the calls the callbacks made, what
                            \* they gathered, and the result stored
  kbx                       \* keybox-update.c: the keybox file, its backup
                            \* and temporary file, and the blob_filecopy
                            \* in progress

vars == << scd_local, scd_local_list, start_scd_lock, socket_name,
           primary_scd_ctx, primary_scd_ctx_reusable, live, peer, launched,
           running, reaper, cache, disable_scdaemon, pc, op, via, ctx, err,
           left,
           ret, pre, acquired, status, exchange, kbx >>

registry == << scd_local_list, socket_name, primary_scd_ctx,
               primary_scd_ctx_reusable >>
daemons == << launched, running, reaper >>

\* struct scd_local_s; ctrl->scd_local == NULL is the record with has = FALSE.
NoLocal == [has |-> FALSE, ctx |-> NULL, in_use |-> FALSE, invalid |-> FALSE]
NewLocal == [has |-> TRUE, ctx |-> NULL, in_use |-> FALSE, invalid |-> FALSE]

\* No call of agent_put_cache, and the call with the given key; data is
\* whether a value is passed (NULL asks to flush), len its length.
NoPut == [called |-> FALSE, key |-> << >>, data |-> FALSE, len |-> 0]
agent_put_cache(key, data, len) ==
  [called |-> TRUE, key |-> key, data |-> data, len |-> len]

\* No status line recorded: a line has at least its keyword.
NoStatus == [n |-> 0, line |-> << >>, fails |-> {}, seen |-> FALSE,
             err |-> OK, put |-> NoPut]

\* No transaction looked at: no input taken, no command sent, no
\* transaction ended, nothing
\* arrived, no call made by a callback, nothing gathered by the callbacks,
\* nothing stored for the caller.
NoExchange == [indata |-> << >>, sent |-> << >>, results |-> << >>,
               arrived |-> << >>,
               calls |-> << >>,
               parm |-> [data |-> << >>, error |-> OK],
               out |-> [ptr |-> "untouched", val |-> << >>]]

\* What is under a file name: no file, or the file with the given blobs.
NoFile == [exists |-> FALSE, blobs |-> << >>]
File(blobs) == [exists |-> TRUE, blobs |-> blobs]

\* No blob_filecopy in progress and no keybox file: the files under the
\* names fname, bakfname and tmpfname,
\* the arguments of the call in progress, the content of the keybox file
\* when it was called, and its return value.
NoKeybox == [fname |-> NoFile, bakfname |-> NoFile, tmpfname |-> NoFile,
             pc |-> "idle", mode |-> 0, blob |-> 0, secret |-> FALSE,
             start_offset |-> 0, orig |-> NoFile, rc |-> OK]

TypeOK ==
  /\ scd_local \in [Tasks -> [has : BOOLEAN, ctx : {NULL} \cup Ctxs,
                              in_use : BOOLEAN, invalid : BOOLEAN]]
  /\ scd_local_list \in Seq(Tasks)
  /\ start_scd_lock \in {NULL} \cup Tasks
  /\ socket_name \in {NULL} \cup Daemons
  /\ primary_scd_ctx \in {NULL} \cup Ctxs
  /\ primary_scd_ctx_reusable \in BOOLEAN
  /\ live \subseteq Ctxs
  /\ peer \in [Ctxs -> {NULL} \cup Daemons]
  /\ launched \in 0 .. MaxDaemons
  /\ running \subseteq Daemons
  /\ reaper \in [Daemons -> {"none", "waitpid", "again", "lock", "done"}]
  /\ cache \subseteq Daemons
  /\ disable_scdaemon \in BOOLEAN
  /\ via \in [Tasks -> {"none", "fast", "reuse", "socket", "busy", "spawn"}]
  /\ ctx \in [Tasks -> {NULL} \cup Ctxs]
  /\ left \in [Tasks -> Nat]
  /\ pre \in [Tasks -> BOOLEAN]
  /\ acquired \in [Tasks -> BOOLEAN]

\* The agent after its start: no session, no daemon, nobody in a call.
InitAgent ==
  /\ scd_local = [t \in Tasks |-> NoLocal]
  /\ scd_local_list = << >>
  /\ start_scd_lock = NULL
  /\ socket_name = NULL
  /\ primary_scd_ctx = NULL
  /\ primary_scd_ctx_reusable = FALSE
  /\ live = {}
  /\ peer = [c \in Ctxs |-> NULL]
  /\ launched = 0
  /\ running = {}
  /\ reaper = [d \in Daemons |-> "none"]
  /\ cache = {}
  /\ disable_scdaemon \in BOOLEAN
  /\ pc = [t \in Tasks |-> "idle"]
  /\ op = [t \in Tasks |-> "none"]
  /\ via = [t \in Tasks |-> "none"]
  /\ ctx = [t \in Tasks |-> NULL]
  /\ err = [t \in Tasks |-> OK]
  /\ left = [t \in Tasks |-> 0]
  /\ ret = [t \in Tasks |-> OK]
  /\ pre = [t \in Tasks |-> FALSE]
  /\ acquired = [t \in Tasks |-> FALSE]
  /\ status = [t \in Tasks |-> NoStatus]
  /\ exchange = NoExchange

Init == InitAgent /\ kbx = NoKeybox

----------------------------------------------------------------------------
(* Helpers *)

\* The task-local variables of t become p, c, e, r; those of the others stay.
Task(t, p, c, e, r) ==
  /\ pc' = [pc EXCEPT ![t] = p]
  /\ ctx' = [ctx EXCEPT ![t] = c]
  /\ err' = [err EXCEPT ![t] = e]
  /\ ret' = [ret EXCEPT ![t] = r]

\* assuan_release: the contexts cs are released (a null pointer is ignored).
Released(cs) ==
  /\ live' = live \ cs
  /\ peer' = [c \in Ctxs |-> IF c \in cs THEN NULL ELSE peer[c]]

\* A faulty variant of Unlink: the head of the list is taken off, whichever
\* session resets.
UnlinkTakesHead(list, t) == Tail(list)

\* The list without the entry of t (agent_reset_scd's unlinking).
Unlink(list, t) == SelectSeq(list, LAMBDA x : x # t)

InList(t) == \E i \in 1 .. Len(scd_local_list) : scd_local_list[i] = t

Lowest(S) == CHOOSE c \in S : \A x \in S : c <= x

\* assuan_new (call-scd.c:359): the addresses a new context can have.  It is
\* an address not in use; one of a released context may be used again.  The
\* code tells addresses apart only by comparing with a stored pointer, and
\* the only pointer it ever keeps to a released context is primary_scd_ctx
\* (see NoStalePointer), so the choice is between that address and another.
NewCtx(inuse, primary) ==
  LET free == Ctxs \ inuse
      other == free \ {primary} IN
  (IF primary # NULL /\ primary \in free THEN {primary} ELSE {})
    \cup (IF other # {} THEN {Lowest(other)} ELSE {})

----------------------------------------------------------------------------
(* The card operations: what differs between them *)

Ops == { "serialno", "learn", "pksign", "pkdecrypt", "readcert", "readkey",
         "writekey", "getattr", "cardlist", "keyinfo", "scd" }

\* The number of transactions the operation makes for its input.  pksign
\* makes none when the input does not fit a line (call-scd.c:1014), else
\* SETDATA and PKSIGN; pkdecrypt one SETDATA per chunk and PKDECRYPT.
Plans(o) ==
  CASE o = "pksign" -> {0, 2}
    [] o = "pkdecrypt" -> 1 .. (1 + MaxChunks)
    [] OTHER -> {1}

\* Errors an operation returns before it calls start_scd.
PreErrors(o) ==
  IF o = "getattr" THEN {GPG_ERR_INV_VALUE, GPG_ERR_TOO_LARGE} ELSE {}

\* Errors an operation finds itself after its last transaction succeeded.
PostErrors(o) ==
  CASE o = "pkdecrypt" -> {GPG_ERR_ENOMEM}
    [] o = "readcert" -> {GPG_ERR_ENOMEM}
    [] o = "readkey" -> {GPG_ERR_ENOMEM, GPG_ERR_INV_VALUE}
    [] o = "getattr" -> {SYSERROR, GPG_ERR_NO_DATA}
    [] o = "cardlist" -> {GPG_ERR_ASS_PARAMETER}
    [] o = "keyinfo" -> {GPG_ERR_ASS_PARAMETER, SYSERROR}
    [] OTHER -> {}

\* A faulty variant of OpNext: agent_card_readkey returns the validation
\* error itself instead of passing it through unlock_scd.
OpNextSkipsUnlock(o, e) ==
  IF o = "readkey" /\ e = GPG_ERR_INV_VALUE THEN "ret" ELSE "unlock"

\* Where an operation goes when, after start_scd succeeded, it ends with the
\* status e: every such path is "return unlock_scd (ctrl, e)" (e.g.
\* call-scd.c:1015, 1022, 1048, 1052, 1213, 1218, 1221).
OpNext(o, e) == "unlock"

\* A faulty variant of HasStatusCb: the SETDATA of pkdecrypt is made with
\* the callback of PKDECRYPT.
HasStatusCbAlways(o, n) == TRUE

\* Whether the transaction made with n transactions left has a status
\* callback that handles PINCACHE_PUT (pkdecrypt's SETDATA has none).
HasStatusCb(o, n) == ~ (o = "pkdecrypt" /\ n > 1)

----------------------------------------------------------------------------
(* Status lines and the PIN cache *)

\* A status line is the sequence of its words, the stretches between white
\* space; a word is the sequence of its characters.  The first word is the
\* keyword.
PINCACHE_PUT == << "P", "I", "N", "C", "A", "C", "H", "E", "_", "P", "U", "T" >>
PADDING == << "P", "A", "D", "D", "I", "N", "G" >>
Keywords == {PINCACHE_PUT, PADDING}

\* call-scd.c:652: a key has at least two slashes and a slot number.
MinKeyLen == 3
\* call-scd.c:687: the shortest cryptogram, 2*24 hex digits.
MinHexLen == 48
\* call-scd.c:707: the wrapped PIN is 8 bytes longer than the PIN.
WrapOverhead == 8
\* A wrapped PIN is a multiple of 8 bytes, 16 hex digits.
WrapBlock == 16

HexDigits == { "0", "1", "2", "3", "4", "5", "6", "7", "8", "9",
               "A", "B", "C", "D", "E", "F", "a", "b", "c", "d", "e", "f" }

\* The key tokens "1", "1/", "1/2", "1/2/", ...
KeyToken(n) == [i \in 1 .. n |-> CASE i % 4 = 1 -> "1"
                                   [] i % 4 = 3 -> "2"
                                   [] OTHER -> "/"]
KeyTokens == { KeyToken(n) : n \in 1 .. MaxKeyLen }

\* Cryptograms: n times the character ch.  Those of "A" stand for what the
\* daemon made with the wrapping key when their length is that of a wrapped
\* PIN, those of "B" for hex digits that are no wrapped PIN, those of "g"
\* are no hex digits.
Filled(ch, n) == [i \in 1 .. n |-> ch]
HexLens == {2} \cup ((MinHexLen - HexSpread) .. (MinHexLen + HexSpread))
Cryptograms == { Filled(ch, n) : ch \in {"A", "B", "g"}, n \in HexLens }
Wrapped == { Filled("A", n) : n \in { m \in HexLens : m % WrapBlock = 0 } }

\* The status lines the daemon may send: a keyword, then nothing, a key
\* token, or a key token and a cryptogram.
Lines ==
  { << k >> : k \in Keywords }
    \cup { << k, a >> : k \in Keywords, a \in KeyTokens }
    \cup { << k, a, b >> : k \in Keywords, a \in KeyTokens, b \in Cryptograms }

\* What may fail inside handle_pincache_put: at most one of its three
\* allocations and the cipher functions.
Failures == { {} } \cup { {a} : a \in {"keybuf", "wrappedpin", "value", "cipher"} }

\* The i-th word of args, empty when there is none.
Word(args, i) == IF Len(args) >= i THEN args[i] ELSE << >>

\* hex2bin (common/convert.c) as call-scd.c:700 uses it: length bytes are
\* converted from 2*length hex digits, after which the string has to end;
\* -1 if not.
hex2bin(string, length) ==
  IF /\ Len(string) = 2 * length
     /\ \A i \in 1 .. Len(string) : string[i] \in HexDigits
    THEN 2 * length
    ELSE -1

Result(e, c) == [err |-> e, put |-> c]

\* A faulty variant of handle_pincache_put: what cannot be converted or
\* unwrapped is ignored.
HandleIgnoresBadCryptogram(args, fails) ==
  LET key == Word(args, 1)
      hexwrappedpin == Word(args, 2)
      wrappedpinlen == Len(hexwrappedpin) \div 2 IN
  IF Len(key) < MinKeyLen
    THEN Result(OK, NoPut)
    ELSE IF "keybuf" \in fails
    THEN Result(SYSERROR, NoPut)
    ELSE IF Len(hexwrappedpin) = 0
    THEN Result(OK, agent_put_cache(key, FALSE, 0))
    ELSE IF Len(hexwrappedpin) < MinHexLen
    THEN Result(OK, NoPut)
    ELSE IF "wrappedpin" \in fails \/ "value" \in fails
    THEN Result(SYSERROR, NoPut)
    ELSE IF \/ hex2bin(hexwrappedpin, wrappedpinlen) = -1
            \/ "cipher" \in fails
            \/ hexwrappedpin \notin Wrapped
    THEN Result(OK, NoPut)
    ELSE Result(OK, agent_put_cache(key, TRUE, wrappedpinlen - WrapOverhead))

\* handle_pincache_put (call-scd.c:636-738) called with args, the words it
\* finds there, when the allocations and cipher calls in fails fail: the
\* value it returns and its call of agent_put_cache.
handle_pincache_put(args, fails) ==
  LET key == Word(args, 1)
      hexwrappedpin == Word(args, 2)
      wrappedpinlen == Len(hexwrappedpin) \div 2 IN
  IF Len(key) < MinKeyLen                                    \* 652-658
    THEN Result(OK, NoPut)
    ELSE IF "keybuf" \in fails                               \* 661-666
    THEN Result(SYSERROR, NoPut)
    ELSE IF Len(hexwrappedpin) = 0                           \* 677-685
    THEN Result(OK, agent_put_cache(key, FALSE, 0))
    ELSE IF Len(hexwrappedpin) < MinHexLen                   \* 687-692
    THEN Result(OK, NoPut)
    ELSE IF "wrappedpin" \in fails                           \* 694-699
    THEN Result(SYSERROR, NoPut)
    ELSE IF hex2bin(hexwrappedpin, wrappedpinlen) = -1       \* 700-705
    THEN Result(GPG_ERR_INV_LENGTH, NoPut)
    ELSE IF "value" \in fails                                \* 707-713
    THEN Result(SYSERROR, NoPut)
    ELSE IF "cipher" \in fails \/ hexwrappedpin \notin Wrapped \* 715-727
    THEN Result(CIPHER_ERROR, NoPut)
    ELSE Result(OK, agent_put_cache(key, TRUE, wrappedpinlen - WrapOverhead))

\* has_leading_keyword (common/stringhelp.c): the words after the keyword
\* when the line starts with it; here NoMatch stands for NULL.
NoMatch == << << >> >>
has_leading_keyword(line, name) ==
  IF Len(line) > 0 /\ line[1] = name THEN Tail(line) ELSE NoMatch

\* pincache_put_cb (call-scd.c:741-754).
pincache_put_cb(line, fails) ==
  LET s == has_leading_keyword(line, PINCACHE_PUT) IN
  IF s # NoMatch THEN handle_pincache_put(s, fails) ELSE Result(OK, NoPut)

\* padding_info_cb (call-scd.c:1059-1074) for a line that is not PADDING:
\* handle_pincache_put gets line, not s.
padding_info_cb(line, fails) ==
  LET s == has_leading_keyword(line, PINCACHE_PUT) IN
  IF line[1] # PADDING /\ s # NoMatch
    THEN handle_pincache_put(line, fails)
    ELSE Result(OK, NoPut)

\* The callbacks that step over the keyword and the white space after it
\* and then compare the keyword: learn_status_cb (call-scd.c:766-779),
\* get_serialno_cb (833-853), card_cardlist_cb (1377-1396) and
\* card_keyinfo_cb (1449-1534), for the keywords of Keywords.
KeywordCb(line, fails) ==
  IF line[1] = PINCACHE_PUT
    THEN handle_pincache_put(Tail(line), fails)
    ELSE Result(OK, NoPut)

\* card_getattr_cb (call-scd.c:1285-1312) for an attribute that is none of
\* Keywords; seen is whether parm->data is set already.
card_getattr_cb(seen, line, fails) ==
  IF seen THEN Result(OK, NoPut) ELSE KeywordCb(line, fails)

\* char keyword[200] (call-scd.c:1594).
KeywordSize == 200
\* The comment marker of a line conveyed in ASSUAN_CONVEY_COMMENTS mode.
Comment == << "#" >>

\* What a callback passes on: the function it calls, with the keyword and
\* the text it passes.
Passed(call, keyword, args) == [call |-> call, keyword |-> keyword, args |-> args]

\* What the callbacks of a transaction have gathered for the operation:
\* the bytes, the string or the list (empty for a null pointer), and the
\* error a callback noted while returning 0.
NoParm == [data |-> << >>, error |-> OK]

\* What a callback did: the value it returns, its call of agent_put_cache,
\* what it passed on, and what is gathered after it.
Did(e, c, up, parm) == [err |-> e, put |-> c, up |-> up, parm |-> parm]

\* A faulty variant of pass_status_thru: PINCACHE_PUT is handled and passed
\* on like any other keyword.
PassStatusThruAll(line, fails) ==
  LET n == IF Len(line[1]) < KeywordSize THEN Len(line[1])
                                          ELSE KeywordSize - 1
      keyword == SubSeq(line[1], 1, n)
      r == IF keyword = PINCACHE_PUT
             THEN handle_pincache_put(Tail(line), fails)
             ELSE Result(OK, NoPut) IN
  IF line[1] = Comment
    THEN Did(OK, NoPut, << Passed("assuan_write_line", << >>, line) >>,
             NoParm)
    ELSE Did(r.err, r.put,
             << Passed("assuan_write_status", keyword, Tail(line)) >>, NoParm)

\* pass_status_thru (call-scd.c:1589-1624): a line whose first word is the
\* comment marker is written upstream as it is; of any other line the
\* keyword is cut to what fits keyword[], and the line is handled when that
\* is PINCACHE_PUT and written upstream as a status line when not.
pass_status_thru(line, fails) ==
  LET n == IF Len(line[1]) < KeywordSize THEN Len(line[1])
                                          ELSE KeywordSize - 1
      keyword == SubSeq(line[1], 1, n) IN                    \* 1607-1609
  IF line[1] = Comment                                       \* 1597-1604
    THEN Did(OK, NoPut, << Passed("assuan_write_line", << >>, line) >>,
             NoParm)
    ELSE IF keyword = PINCACHE_PUT                           \* 1618-1619
    THEN LET r == handle_pincache_put(Tail(line), fails) IN
         Did(r.err, r.put, << >>, NoParm)
    ELSE Did(OK, NoPut,                                      \* 1621
             << Passed("assuan_write_status", keyword, Tail(line)) >>, NoParm)

\* pass_data_thru (call-scd.c:1626-1633).
pass_data_thru(buffer) ==
  Did(OK, NoPut, << Passed("assuan_send_data", << >>, buffer) >>, NoParm)

\* put_membuf_cb (common/membuf.c), the data callback of call-scd.c:1039,
\* 1132, 1168 and 1203: the bytes are added to the buffer.
put_membuf_cb(parm, buffer) ==
  Did(OK, NoPut, << >>, [parm EXCEPT !.data = @ \o buffer])

\* The keywords the callbacks compare with, as words, and the beginnings
\* of command lines.
Chars(name) ==
  CASE name = "SERIALNO" -> << "S", "E", "R", "I", "A", "L", "N", "O" >>
    [] name = "KEYINFO" -> << "K", "E", "Y", "I", "N", "F", "O" >>
    [] name = "CERTINFO" -> << "C", "E", "R", "T", "I", "N", "F", "O" >>
    [] name = "KEYPAIRINFO" ->
         << "K", "E", "Y", "P", "A", "I", "R", "I", "N", "F", "O" >>
    [] name = "NEEDPIN" -> << "N", "E", "E", "D", "P", "I", "N" >>
    [] name = "POPUPPINPADPROMPT" ->
         << "P", "O", "P", "U", "P", "P", "I", "N", "P", "A", "D",
            "P", "R", "O", "M", "P", "T" >>
    [] name = "DISMISSPINPADPROMPT" ->
         << "D", "I", "S", "M", "I", "S", "S", "P", "I", "N", "P", "A", "D",
            "P", "R", "O", "M", "P", "T" >>
    [] name = "PINCACHE_GET" ->
         << "P", "I", "N", "C", "A", "C", "H", "E", "_", "G", "E", "T" >>
    [] name = "KEYDATA" -> << "K", "E", "Y", "D", "A", "T", "A" >>
    [] name = "SETDATA " -> << "S", "E", "T", "D", "A", "T", "A", " " >>
    [] name = "--append " ->
         << "-", "-", "a", "p", "p", "e", "n", "d", " " >>
    [] name = "PKDECRYPT " ->
         << "P", "K", "D", "E", "C", "R", "Y", "P", "T", " " >>

\* The characters of a line from its words: a space between two words.
RECURSIVE Flat(_)
Flat(words) ==
  IF Len(words) = 0 THEN << >>
  ELSE IF Len(words) = 1 THEN words[1]
  ELSE words[1] \o << " " >> \o Flat(Tail(words))

\* for (n=0,s=line; hexdigitp (s); s++, n++) (e.g. call-scd.c:841): the
\* number of hex digits of s from position i on.
RECURSIVE HexRun(_, _)
HexRun(s, i) ==
  IF i <= Len(s) /\ s[i] \in HexDigits THEN 1 + HexRun(s, i + 1) ELSE 0

\* while (spacep (line)) line++ (e.g. call-scd.c:1487): the position of the
\* first character from i on that is no space.
RECURSIVE Skip(_, _)
Skip(s, i) == IF i <= Len(s) /\ s[i] = " " THEN Skip(s, i + 1) ELSE i

\* learn_status_cb (call-scd.c:756-786): the caller's callbacks are called
\* with the text after the keyword.
learn_status_cb(parm, line, fails) ==
  IF line[1] = Chars("CERTINFO")
    THEN Did(OK, NoPut, << Passed("certinfo_cb", << >>, Tail(line)) >>, parm)
    ELSE IF line[1] = Chars("KEYPAIRINFO")
    THEN Did(OK, NoPut, << Passed("kpinfo_cb", << >>, Tail(line)) >>, parm)
    ELSE IF line[1] = PINCACHE_PUT
    THEN LET r == handle_pincache_put(Tail(line), fails) IN
         Did(r.err, r.put, << >>, parm)
    ELSE IF Len(line[1]) > 0 /\ Len(line) > 1
    THEN Did(OK, NoPut, << Passed("sinfo_cb", line[1], Tail(line)) >>, parm)
    ELSE Did(OK, NoPut, << >>, parm)

\* A faulty variant of get_serialno_cb: a later SERIALNO line replaces the
\* serial number of an earlier one.
SerialnoTakesLast(parm, line, fails) ==
  LET args == Flat(Tail(line))
      n == HexRun(args, 1) IN
  IF line[1] = Chars("SERIALNO")
    THEN IF n = 0 \/ n % 2 = 1 \/ ~ (n = Len(args) \/ args[n + 1] = " ")
           THEN Did(GPG_ERR_ASS_PARAMETER, NoPut, << >>, parm)
           ELSE Did(OK, NoPut, << >>, [parm EXCEPT !.data = SubSeq(args, 1, n)])
    ELSE Did(OK, NoPut, << >>, parm)

\* get_serialno_cb (call-scd.c:824-856); parm.data is *serialno.
get_serialno_cb(parm, line, fails) ==
  LET args == Flat(Tail(line))
      n == HexRun(args, 1) IN
  IF line[1] = Chars("SERIALNO")
    THEN IF parm.data # << >>                                \* 839-840
           THEN Did(GPG_ERR_CONFLICT, NoPut, << >>, parm)
           ELSE IF \/ n = 0                                  \* 843-844
                   \/ n % 2 = 1
                   \/ ~ (n = Len(args) \/ args[n + 1] = " ")
           THEN Did(GPG_ERR_ASS_PARAMETER, NoPut, << >>, parm)
           ELSE IF "serialno" \in fails                      \* 845-847
           THEN Did(SYSERROR, NoPut, << >>, parm)
           ELSE Did(OK, NoPut, << >>,                        \* 848-849
                    [parm EXCEPT !.data = SubSeq(args, 1, n)])
    ELSE IF line[1] = PINCACHE_PUT                           \* 851-852
    THEN LET r == handle_pincache_put(Tail(line), fails) IN
         Did(r.err, r.put, << >>, parm)
    ELSE Did(OK, NoPut, << >>, parm)

\* call-scd.c:1467: a keygrip has 40 hex digits.
KeygripLen == 40

\* A faulty variant of card_keyinfo_cb: a line that is not well formed is
\* skipped.
KeyinfoSkipsMalformed(parm, line, fails) ==
  LET args == Flat(Tail(line))
      n == HexRun(args, 1)
      t == Skip(args, n + 1)
      u == Skip(args, t + 1)
      m == HexRun(args, u)
      v == Skip(args, u + m) IN
  IF line[1] = PINCACHE_PUT
    THEN LET r == handle_pincache_put(Tail(line), fails) IN
         Did(r.err, r.put, << >>, parm)
    ELSE IF /\ line[1] = Chars("KEYINFO") /\ fails = {}
            /\ n = KeygripLen /\ t <= Len(args) /\ args[t] = "T"
            /\ m > 0 /\ v <= Len(args)
    THEN Did(OK, NoPut, << >>,
             [parm EXCEPT !.data =
                Append(@, [keygrip |-> SubSeq(args, 1, KeygripLen),
                           serialno |-> SubSeq(args, u, u + m - 1),
                           idstr |-> SubSeq(args, v, Len(args))])])
    ELSE Did(OK, NoPut, << >>, parm)

\* card_keyinfo_cb (call-scd.c:1441-1537); parm.data is parm->list.  A
\* line that is not well formed is noted in parm->error and the callback
\* returns 0.
card_keyinfo_cb(parm, line, fails) ==
  LET args == Flat(Tail(line))
      n == HexRun(args, 1)                                   \* 1464
      t == Skip(args, n + 1)                                 \* 1481-1482
      u == Skip(args, t + 1)                                 \* 1490-1491
      m == HexRun(args, u)                                   \* 1493
      v == Skip(args, u + m)                                 \* 1511-1512
      alloc_error ==                                         \* 1459-1462
        Did(OK, NoPut, << >>,
            [parm EXCEPT !.error = IF @ = OK THEN SYSERROR ELSE @])
      parm_error ==                                          \* 1469-1472
        Did(OK, NoPut, << >>,
            [parm EXCEPT !.error = IF @ = OK THEN GPG_ERR_ASS_PARAMETER
                                             ELSE @]) IN
  IF line[1] = Chars("KEYINFO")
    THEN IF "keyinfo" \in fails THEN alloc_error             \* 1456-1463
         ELSE IF n # KeygripLen THEN parm_error              \* 1467
         ELSE IF n + 1 > Len(args) THEN parm_error           \* 1478-1479
         ELSE IF t > Len(args) \/ args[t] # "T" THEN parm_error \* 1484
         ELSE IF t + 1 > Len(args) THEN parm_error           \* 1487-1488
         ELSE IF m = 0 THEN parm_error                       \* 1496-1497
         ELSE IF "serialno" \in fails THEN alloc_error       \* 1499-1501
         ELSE IF u + m > Len(args) THEN parm_error           \* 1508-1509
         ELSE IF v > Len(args) THEN parm_error               \* 1514-1515
         ELSE IF "idstr" \in fails THEN alloc_error          \* 1517-1519
         ELSE Did(OK, NoPut, << >>,                          \* 1521
                  [parm EXCEPT !.data =
                     Append(@, [keygrip |-> SubSeq(args, 1, KeygripLen),
                                serialno |-> SubSeq(args, u, u + m - 1),
                                idstr |-> SubSeq(args, v, Len(args))])])
    ELSE IF line[1] = PINCACHE_PUT                           \* 1523-1524
    THEN LET r == handle_pincache_put(Tail(line), fails) IN
         Did(r.err, r.put, << >>, parm)
    ELSE Did(OK, NoPut, << >>, parm)

\* The status callback of the transaction the operation o makes with n
\* transactions left, called with line.
StatusCb(o, n, seen, line, fails) ==
  CASE ~ HasStatusCb(o, n) -> Result(OK, NoPut)
    [] o = "pkdecrypt" -> padding_info_cb(line, fails)
    [] o \in {"pksign", "readcert", "readkey", "writekey"} ->
         pincache_put_cb(line, fails)
    [] o = "getattr" -> card_getattr_cb(seen, line, fails)
    [] o = "scd" -> LET r == pass_status_thru(line, fails) IN
                    Result(r.err, r.put)
    [] OTHER -> KeywordCb(line, fails)

\* A faulty variant of inq_needpin: with a channel to pass inquiries to,
\* every inquiry is passed to it.
InqPassesAllThru(parm, line, fails) ==
  IF parm.passthru
    THEN Did(OK, NoPut,
             << Passed("assuan_inquire", << >>, line),
                Passed("assuan_send_data to scd", << >>, << "value" >>) >>,
             NoParm)
    ELSE Did(GPG_ERR_ASS_UNKNOWN_INQUIRE, NoPut, << >>, NoParm)

\* A faulty variant of inq_needpin: the PIN callback is called for every
\* inquiry that is not passed on.
InqAlwaysAsksPin(parm, line, fails) ==
  IF parm.passthru /\ line[1] \notin {Chars("NEEDPIN"), Chars("PINCACHE_GET")}
    THEN Did(OK, NoPut,
             << Passed("assuan_inquire", << >>, line),
                Passed("assuan_send_data to scd", << >>, << "value" >>) >>,
             NoParm)
    ELSE Did(OK, NoPut,
             << Passed("getpin_cb", parm.desc, Tail(line)),
                Passed("getpin_cb", parm.desc, Tail(line)),
                Passed("assuan_send_data to scd", << >>, << "pin" >>) >>,
             NoParm)

\* inq_needpin (call-scd.c:892-968) called with the inquiry line, parm
\* being getpin_cb_desc and whether passthru is set; fails holds what
\* fails of the allocation of the PIN buffer ("pin"), the PIN callback
\* ("getpin_cb") and the inquiry passed on ("assuan_inquire").  It gathers
\* nothing.
inq_needpin(parm, line, fails) ==
  LET s == Tail(line)
      rc == IF "getpin_cb" \in fails THEN GPG_ERR_CANCELED ELSE OK IN
  IF line[1] = Chars("NEEDPIN")                              \* 901-914
    THEN IF "pin" \in fails
           THEN Did(SYSERROR, NoPut, << >>, NoParm)
           ELSE Did(rc, NoPut,
                    << Passed("getpin_cb", parm.desc, s) >>
                      \o (IF rc = OK
                            THEN << Passed("assuan_send_data to scd", << >>,
                                           << "pin" >>) >>
                            ELSE << >>),
                    NoParm)
    ELSE IF line[1] = Chars("POPUPPINPADPROMPT")             \* 915-919
    THEN Did(rc, NoPut, << Passed("getpin_cb", parm.desc, s) >>, NoParm)
    ELSE IF line[1] = Chars("DISMISSPINPADPROMPT")           \* 920-924
    THEN Did(rc, NoPut, << Passed("getpin_cb", parm.desc, << >>) >>, NoParm)
    ELSE IF line[1] = Chars("PINCACHE_GET")                  \* 925-930
    THEN Did(OK, NoPut, << >>, NoParm)
    ELSE IF parm.passthru                                    \* 931-960
    THEN IF "assuan_inquire" \in fails
           THEN Did(GPG_ERR_CANCELED, NoPut,
                    << Passed("assuan_inquire", << >>, line) >>, NoParm)
           ELSE Did(OK, NoPut,
                    << Passed("assuan_inquire", << >>, line),
                       Passed("assuan_send_data to scd", << >>,
                              << "value" >>) >>,
                    NoParm)
    ELSE Did(GPG_ERR_ASS_UNKNOWN_INQUIRE, NoPut, << >>, NoParm) \* 961-965

\* inq_writekey_parms (call-scd.c:1226-1236).
inq_writekey_parms(parm, line, fails) ==
  IF line[1] = Chars("KEYDATA")
    THEN Did(OK, NoPut,
             << Passed("assuan_send_data to scd", << >>, << "keydata" >>) >>,
             NoParm)
    ELSE inq_needpin(parm, line, fails)

\* The inquiry callback the operation o gives to assuan_transact when it
\* has n transactions left, called with line (the other transactions have
\* none).  The description text is that of the caller
\* (call-scd.c:1028, 1124), or NULL (1255, 1657), here no text; only
\* agent_card_scd sets passthru (1658).
InquireCb(o, n, line, fails) ==
  CASE o = "scd" ->
         inq_needpin([desc |-> << >>, passthru |-> TRUE], line, fails)
    [] o \in {"pksign", "pkdecrypt"} /\ n = 1 ->
         inq_needpin([desc |-> << "desc_text" >>, passthru |-> FALSE],
                     line, fails)
    [] o = "writekey" ->
         inq_writekey_parms([desc |-> << >>, passthru |-> FALSE], line, fails)

\* The command line of the transaction the operation o makes with n
\* transactions left, without its arguments; first is whether it is the
\* first one (call-scd.c:1017, 1034-1037, 1108-1110, 1129, and 867-870,
\* 813, 1166, 1201, 1253, 1331, 1412, 1567, 1664).  PKSIGN stands for
\* PKAUTH as well.
Command(o, n, first) ==
  CASE o = "pksign" -> IF n > 1 THEN "SETDATA" ELSE "PKSIGN"
    [] o = "pkdecrypt" -> IF n = 1 THEN "PKDECRYPT"
                          ELSE IF first THEN "SETDATA"
                          ELSE "SETDATA --append"
    [] o = "serialno" -> "SERIALNO"
    [] o = "learn" -> "LEARN --force"
    [] o = "readcert" -> "READCERT"
    [] o = "readkey" -> "READKEY"
    [] o = "writekey" -> "WRITEKEY"
    [] o = "getattr" -> "GETATTR"
    [] o = "cardlist" -> "GETINFO card_list"
    [] o = "keyinfo" -> "KEYINFO"
    [] o = "scd" -> "cmdline"

\* The status callback the operation o gives to assuan_transact when it
\* has n transactions left, called with line: what it does to the cache,
\* what it passes on and what it gathers.  (The callbacks of
\* agent_card_getattr and agent_card_cardlist are taken here for lines
\* that are neither their attribute nor SERIALNO.)
LineCb(o, n, parm, line, fails) ==
  LET r == StatusCb(o, n, FALSE, line, fails) IN
  CASE o = "scd" -> pass_status_thru(line, fails)
    [] o = "learn" -> learn_status_cb(parm, line, fails)
    [] o = "serialno" -> get_serialno_cb(parm, line, fails)
    [] o = "keyinfo" -> card_keyinfo_cb(parm, line, fails)
    [] OTHER -> Did(r.err, r.put, << >>, parm)

\* The data callback the operation o gives to assuan_transact when it has
\* n transactions left: none ("NULL"), pass_data_thru or put_membuf_cb.
DataCb(o, n) ==
  CASE o = "scd" -> "pass_data_thru"
    [] o \in {"pksign", "pkdecrypt", "readcert", "readkey"} /\ n = 1 ->
         "put_membuf_cb"
    [] OTHER -> "NULL"

\* What the caller finds at the address it gave for the result: nothing
\* stored there, a null pointer, or a value.
Out(ptr, val) == [ptr |-> ptr, val |-> val]

\* A faulty variant of Finish: after an error the operations that gather
\* bytes or a list give the caller what was gathered so far.
FinishReturnsPartial(o, rc, parm) ==
  IF o \in {"learn", "writekey", "scd"}
    THEN [err |-> rc, out |-> Out("untouched", << >>)]
    ELSE IF rc = OK /\ o = "getattr" /\ parm.data = << >>
    THEN [err |-> GPG_ERR_NO_DATA, out |-> Out("null", << >>)]
    ELSE [err |-> IF rc = OK THEN parm.error ELSE rc,
          out |-> IF parm.data = << >> THEN Out("null", << >>)
                                       ELSE Out("value", parm.data)]

\* What the operation o does after its last assuan_transact returned rc
\* with parm gathered (e.g. call-scd.c:879-885, 1043-1052, 1577-1586): the
\* status it gives to unlock_scd and what it leaves at the address for the
\* result.  Every operation but agent_card_serialno stored a null pointer
\* there when it was called.
Finish(o, rc, parm) ==
  LET perr == IF rc = OK /\ parm.error # OK THEN parm.error ELSE rc IN
  CASE o = "serialno" ->
         IF rc # OK THEN [err |-> rc, out |-> Out("untouched", << >>)]
         ELSE IF parm.data = << >> THEN [err |-> OK, out |-> Out("null", << >>)]
         ELSE [err |-> OK, out |-> Out("value", parm.data)]
    [] o \in {"learn", "writekey", "scd"} ->
         [err |-> rc, out |-> Out("untouched", << >>)]
    [] o \in {"pksign", "pkdecrypt", "readcert", "readkey"} ->
         IF rc # OK THEN [err |-> rc, out |-> Out("null", << >>)]
         ELSE [err |-> OK, out |-> Out("value", parm.data)]
    [] o \in {"cardlist", "keyinfo"} ->
         IF perr # OK \/ parm.data = << >>
           THEN [err |-> perr, out |-> Out("null", << >>)]
           ELSE [err |-> OK, out |-> Out("value", parm.data)]
    [] o = "getattr" ->
         IF perr # OK THEN [err |-> perr, out |-> Out("null", << >>)]
         ELSE IF parm.data = << >>
         THEN [err |-> GPG_ERR_NO_DATA, out |-> Out("null", << >>)]
         ELSE [err |-> OK, out |-> Out("value", parm.data)]

----------------------------------------------------------------------------
(* unlock_scd *)

\* A faulty variant of UnlockRc: every status is replaced when the session
\* is not in use, not only the zero status.
UnlockRcAlwaysInternal(in_use, rc) ==
  IF ~ in_use THEN GPG_ERR_INTERNAL ELSE rc

\* call-scd.c:165-170 and 190: the value unlock_scd returns.
UnlockRc(in_use, rc) ==
  IF ~ in_use /\ rc = OK THEN GPG_ERR_INTERNAL ELSE rc

\* A faulty variant of UnlockLocal: in_use is cleared only on the path that
\* does not release the connection.
UnlockLocalStillInUse(sl) ==
  IF sl.invalid
    THEN [sl EXCEPT !.ctx = NULL, !.invalid = FALSE]
    ELSE [sl EXCEPT !.in_use = FALSE]

\* call-scd.c:177-183: the session record after unlock_scd.
UnlockLocal(sl) ==
  IF sl.invalid
    THEN [sl EXCEPT !.in_use = FALSE, !.ctx = NULL, !.invalid = FALSE]
    ELSE [sl EXCEPT !.in_use = FALSE]

\* A faulty variant of UnlockReleases: the pointer is cleared without
\* assuan_release.
UnlockReleasesNothing(sl) == {}

\* call-scd.c:178-180: the context unlock_scd releases.
UnlockReleases(sl) == IF sl.invalid /\ sl.ctx # NULL THEN {sl.ctx} ELSE {}

----------------------------------------------------------------------------
(* start_scd *)

\* call-scd.c:304-326: what start_scd does before it takes the lock.
\* A faulty variant of StartEntry: in_use is tested before the connection.
StartEntryTestsInUseFirst(sl, disabled) ==
  IF disabled THEN "unsupported"
  ELSE IF sl.has /\ sl.in_use THEN "in_use"
  ELSE IF sl.has /\ sl.ctx # NULL THEN "fast"
  ELSE "lock"

StartEntry(sl, disabled) ==
  IF disabled THEN "unsupported"
  ELSE IF sl.has /\ sl.ctx # NULL THEN "fast"
  ELSE IF sl.has /\ sl.in_use THEN "in_use"
  ELSE "lock"

\* A faulty variant of Resolve: the primary connection is handed out
\* without looking at primary_scd_ctx_reusable.
ResolveAlwaysReuse(primary, reusable, sockname) ==
  IF primary # NULL THEN "reuse"
  ELSE IF sockname # NULL THEN "socket"
  ELSE "spawn"

\* A faulty variant of Resolve: without the test of call-scd.c:383 a daemon
\* is started although a primary connection exists.
ResolveNeverBusy(primary, reusable, sockname) ==
  IF primary # NULL /\ reusable THEN "reuse"
  ELSE IF sockname # NULL THEN "socket"
  ELSE "spawn"

\* A faulty variant of Resolve: a known socket is tried before the reusable
\* primary connection.
ResolveSocketFirst(primary, reusable, sockname) ==
  IF sockname # NULL THEN "socket"
  ELSE IF primary # NULL /\ reusable THEN "reuse"
  ELSE IF primary # NULL THEN "busy"
  ELSE "spawn"

\* call-scd.c:350-392: how start_scd gets a connection, decided under the lock.
Resolve(primary, reusable, sockname) ==
  IF primary # NULL /\ reusable THEN "reuse"
  ELSE IF sockname # NULL THEN "socket"
  ELSE IF primary # NULL THEN "busy"
  ELSE "spawn"

\* The caller's code after start_scd returned success in operation o with
\* plan n: the bare call returns; pksign with too long an input calls
\* unlock_scd at once (call-scd.c:1014-1015); else the first transaction.
StartOk(t, o, n, c) ==
  /\ acquired' = [acquired EXCEPT ![t] = TRUE]
  /\ IF o = "start_scd" THEN Task(t, "ret", c, OK, OK)
     ELSE IF n = 0 THEN Task(t, OpNext(o, GPG_ERR_GENERAL), c, GPG_ERR_GENERAL, OK)
     ELSE Task(t, "transact", c, OK, OK)

\* start_scd returned the error e: every caller returns it at once.
StartFails(t, e) ==
  /\ Task(t, "ret", NULL, OK, e)
  /\ UNCHANGED acquired

\* call-scd.c:304-317, called in operation o with plan n.
Call_start_scd(t, o, n) ==
  LET sl == scd_local[t]
      how == StartEntry(sl, disable_scdaemon) IN
  /\ op' = [op EXCEPT ![t] = o]
  /\ via' = [via EXCEPT ![t] = IF how = "fast" THEN "fast" ELSE "none"]
  /\ UNCHANGED << status, exchange, kbx >>
  /\ left' = [left EXCEPT ![t] = n]
  /\ pre' = [pre EXCEPT ![t] = sl.in_use]
  /\ CASE how = "unsupported" ->
            StartFails(t, GPG_ERR_NOT_SUPPORTED) /\ UNCHANGED scd_local
       [] how = "fast" ->
            /\ scd_local' = [scd_local EXCEPT ![t].in_use = TRUE]
            /\ StartOk(t, o, n, NULL)
       [] how = "in_use" ->
            StartFails(t, GPG_ERR_INTERNAL) /\ UNCHANGED scd_local
       [] how = "lock" ->
            /\ Task(t, "start_lock", NULL, OK, OK)
            /\ UNCHANGED << scd_local, acquired >>
  /\ UNCHANGED << registry, start_scd_lock, live, peer, daemons, cache,
                  disable_scdaemon >>

\* A faulty variant of LeaveOk: start_scd returns success without
\* npth_mutex_unlock.
LeaveOkKeepsLock(t, c, locals) ==
  /\ start_scd_lock' = t
  /\ scd_local' = [locals EXCEPT ![t].invalid = FALSE, ![t].ctx = c]
  /\ StartOk(t, op[t], left[t], NULL)

\* call-scd.c:532-549 with err = 0: the lock is released, the session gets
\* the context, start_scd returns 0.  npth_mutex_unlock does not block, so
\* this is one step with what precedes it.
LeaveOk(t, c, locals) ==
  /\ start_scd_lock' = NULL
  /\ scd_local' = [locals EXCEPT ![t].invalid = FALSE, ![t].ctx = c]
  /\ StartOk(t, op[t], left[t], NULL)

\* A faulty variant of LeaveErr: start_scd returns the error at its leave
\* without calling unlock_scd and without releasing ctx.
LeaveErrSkipsUnlock(t, c, e) ==
  /\ start_scd_lock' = NULL
  /\ Task(t, "ret", NULL, OK, e)
  /\ UNCHANGED acquired

\* A faulty variant of LeaveErr: start_scd goes to its error return
\* without npth_mutex_unlock.
LeaveErrKeepsLock(t, c, e) ==
  /\ start_scd_lock' = t
  /\ Task(t, "start_err", c, e, OK)
  /\ UNCHANGED acquired

\* call-scd.c:532-540 with err set: the lock is released; unlock_scd, which
\* takes the lock again, and the release of ctx follow in StartErrUnlock.
LeaveErr(t, c, e) ==
  /\ start_scd_lock' = NULL
  /\ Task(t, "start_err", c, e, OK)
  /\ UNCHANGED acquired

\* call-scd.c:320-458: start_scd has the lock.  The session record is
\* allocated and linked on the first call; then the connection is resolved.
\* A faulty variant of agent_flush_cache: the cached PINs stay.
FlushKeepsPins(pins) == pins

\* agent_flush_cache (1) as start_scd calls it before it starts a daemon
\* (call-scd.c:390-394): no PIN is left in the cache.
agent_flush_cache(pins) == {}

StartLocked(t) ==
  /\ pc[t] = "start_lock"
  /\ start_scd_lock = NULL
  /\ UNCHANGED << op, left, pre, daemons, disable_scdaemon, peer >>
  /\ \/ \* xtrycalloc fails (332-340): the lock is released, err returned
        /\ ~ scd_local[t].has
        /\ StartFails(t, GPG_ERR_ENOMEM)
        /\ UNCHANGED << scd_local, registry, start_scd_lock, live, cache,
                        via, status, exchange, kbx >>
     \/ LET fresh == ~ scd_local[t].has
            locals == [scd_local EXCEPT
                         ![t] = [(IF fresh THEN NewLocal ELSE @)
                                   EXCEPT !.in_use = TRUE]]
            list == IF fresh THEN << t >> \o scd_local_list
                             ELSE scd_local_list
            how == Resolve(primary_scd_ctx, primary_scd_ctx_reusable,
                           socket_name) IN
        /\ scd_local_list' = list
        /\ via' = [via EXCEPT ![t] = how]
        /\ UNCHANGED << status, exchange, kbx >>
        /\ IF how = "reuse"
             THEN /\ primary_scd_ctx_reusable' = FALSE
                  /\ LeaveOk(t, primary_scd_ctx, locals)
                  /\ UNCHANGED << socket_name, primary_scd_ctx, live, cache >>
             ELSE
               /\ UNCHANGED << socket_name, primary_scd_ctx,
                               primary_scd_ctx_reusable >>
               /\ \/ \* assuan_new fails (359-365)
                     /\ scd_local' = locals
                     /\ LeaveErr(t, NULL, GPG_ERR_ENOMEM)
                     /\ UNCHANGED << live, cache >>
                  \/ \E c \in NewCtx(live, primary_scd_ctx) :
                       /\ live' = live \cup {c}
                       /\ CASE how = "socket" ->
                                 \* assuan_socket_connect blocks (369)
                                 /\ scd_local' = locals
                                 /\ start_scd_lock' = t
                                 /\ Task(t, "socket_connect", c, OK, OK)
                                 /\ UNCHANGED << cache, acquired >>
                            [] how = "busy" ->
                                 /\ scd_local' = locals
                                 /\ LeaveErr(t, c, GPG_ERR_NO_SCDAEMON)
                                 /\ UNCHANGED cache
                            [] how = "spawn" ->
                                 /\ cache' = agent_flush_cache(cache)  \* 394
                                 /\ \/ \* fflush fails (396-409)
                                       /\ scd_local' = locals
                                       /\ LeaveErr(t, c, SYSERROR)
                                    \/ \* make_absfilename_try fails: goto
                                       \* leave with err still 0 (424-430)
                                       LeaveOk(t, c, locals)
                                    \/ \* assuan_pipe_connect blocks (449)
                                       /\ scd_local' = locals
                                       /\ start_scd_lock' = t
                                       /\ Task(t, "pipe_connect", c, OK, OK)
                                       /\ UNCHANGED acquired

\* call-scd.c:369-381: assuan_socket_connect returned.  It can succeed only
\* while the daemon that owns the socket runs.
SocketConnected(t) ==
  /\ pc[t] = "socket_connect"
  /\ UNCHANGED << op, via, status, exchange, kbx, left, pre, daemons, disable_scdaemon, registry, live,
                  cache >>
  /\ \/ /\ socket_name \in running
        /\ peer' = [peer EXCEPT ![ctx[t]] = socket_name]
        /\ LeaveOk(t, ctx[t], scd_local)
     \/ /\ LeaveErr(t, ctx[t], GPG_ERR_NO_SCDAEMON)
        /\ UNCHANGED << peer, scd_local >>

\* call-scd.c:449-474: assuan_pipe_connect returned.  On success a new
\* daemon process runs and GETINFO socket_name is sent to it.
PipeConnected(t) ==
  /\ pc[t] = "pipe_connect"
  /\ UNCHANGED << op, via, status, exchange, kbx, left, pre, disable_scdaemon, registry, live, cache,
                  scd_local, reaper >>
  /\ \/ /\ launched < MaxDaemons
        /\ launched' = launched + 1
        /\ running' = running \cup {launched + 1}
        /\ peer' = [peer EXCEPT ![ctx[t]] = launched + 1]
        /\ Task(t, "getinfo", ctx[t], OK, OK)
        /\ UNCHANGED << start_scd_lock, acquired >>
     \/ /\ LeaveErr(t, ctx[t], GPG_ERR_NO_SCDAEMON)
        /\ UNCHANGED << launched, running, peer >>

\* call-scd.c:511-530 and the leave that follows: the connection becomes the
\* primary one and the wait_child_thread of the daemon is created.  started
\* is whether npth_attr_init and npth_create succeeded.
SpawnFinish(t, started) ==
  LET d == peer[ctx[t]] IN
  /\ primary_scd_ctx' = ctx[t]
  /\ primary_scd_ctx_reusable' = FALSE
  /\ UNCHANGED << launched, running, scd_local_list, live, peer >>
  /\ IF started
       THEN /\ reaper' = [reaper EXCEPT ![d] = "waitpid"]
            /\ LeaveOk(t, ctx[t], scd_local)
       ELSE /\ LeaveErr(t, ctx[t], SYSERROR)
            /\ UNCHANGED << reaper, scd_local >>

\* call-scd.c:476-509: the GETINFO transaction returned; the socket name is
\* cached when data arrived and could be stored.  With opt.sigusr2_enabled
\* the OPTION event-signal transaction is sent next.
GetinfoDone(t) ==
  /\ pc[t] = "getinfo"
  /\ UNCHANGED << op, via, left, pre, disable_scdaemon, cache >>
  /\ status' = [status EXCEPT ![t] = NoStatus]
  /\ UNCHANGED << exchange, kbx >>
  /\ \E name \in {NULL, peer[ctx[t]]} :
       /\ socket_name' = name
       /\ \/ \* opt.sigusr2_enabled
             /\ Task(t, "option", ctx[t], OK, OK)
             /\ UNCHANGED << primary_scd_ctx, primary_scd_ctx_reusable,
                             scd_local_list, start_scd_lock, scd_local,
                             live, peer, daemons, acquired >>
          \/ \E started \in BOOLEAN : SpawnFinish(t, started)

\* call-scd.c:507-509: the OPTION transaction returned.
OptionDone(t) ==
  /\ pc[t] = "option"
  /\ UNCHANGED << op, via, left, pre, disable_scdaemon, cache, socket_name >>
  /\ status' = [status EXCEPT ![t] = NoStatus]
  /\ UNCHANGED << exchange, kbx >>
  /\ \E started \in BOOLEAN : SpawnFinish(t, started)

\* call-scd.c:538-549 with err set: unlock_scd (ctrl, err) under the lock,
\* then the release of ctx; start_scd returns err.
StartErrUnlock(t) ==
  /\ pc[t] = "start_err"
  /\ start_scd_lock = NULL
  /\ scd_local' = [scd_local EXCEPT ![t] = UnlockLocal(@)]
  /\ Released(UnlockReleases(scd_local[t]) \cup ({ctx[t]} \ {NULL}))
  /\ acquired' = [acquired EXCEPT ![t] = FALSE]
  /\ Task(t, "ret", NULL, OK, err[t])
  /\ UNCHANGED << op, via, status, exchange, kbx, left, pre, disable_scdaemon, cache, registry,
                  start_scd_lock, daemons >>

----------------------------------------------------------------------------
(* The card operations *)

\* A card operation is called (e.g. agent_card_readkey, call-scd.c:1187-1198):
\* it returns an error of its own, or calls start_scd.
CardOp(t, ops) ==
  /\ pc[t] = "idle"
  /\ \E o \in ops :
       \/ \E e \in PreErrors(o) :
            /\ op' = [op EXCEPT ![t] = o]
            /\ Task(t, "ret", NULL, OK, e)
            /\ UNCHANGED << via, status, exchange, kbx, scd_local, registry, start_scd_lock, live, peer,
                            daemons, cache, disable_scdaemon, left, pre,
                            acquired >>
       \/ \E n \in Plans(o) : Call_start_scd(t, o, n)

\* assuan_transact has called a callback of task t's transaction and the
\* callback did r.  A value put into the cache adds the daemon's PINs, a
\* flush for a key may remove its last one.  When the callback returns an
\* error assuan_transact returns it and the operation ends as in
\* TransactDone.
Handled(t, r) ==
  LET d == peer[scd_local[t].ctx] IN
  /\ pc[t] = "transact"
  /\ scd_local[t].ctx # NULL
  /\ d # NULL
  /\ IF r.put.called
       THEN IF r.put.data
              THEN cache' = cache \cup {d}
              ELSE cache' \in {cache, cache \ {d}}
       ELSE cache' = cache
  /\ IF r.err = OK
       THEN UNCHANGED << pc, ctx, err, ret >>
       ELSE Task(t, OpNext(op[t], r.err), NULL, r.err, OK)
  /\ UNCHANGED << scd_local, registry, start_scd_lock, live, peer, daemons,
                  disable_scdaemon, op, via, left, pre, acquired >>

\* The daemon's status line l arrives in the transaction of task t and
\* assuan_transact calls the status callback with it, while the allocations
\* and cipher calls in f fail.
Deliver(t, l, f, seen) == Handled(t, StatusCb(op[t], left[t], seen, l, f))

\* A status line arrives; what the callback did with it is recorded, for
\* up to MaxLines lines of a transaction.
StatusLine(t, lines, failures) ==
  \E l \in lines, f \in failures, seen \in BOOLEAN :
    LET r == StatusCb(op[t], left[t], seen, l, f) IN
    /\ status[t].n < MaxLines
    /\ UNCHANGED << exchange, kbx >>
    /\ seen => op[t] = "getattr"
    /\ Deliver(t, l, f, seen)
    /\ status' = [status EXCEPT ![t] = [n |-> @.n + 1, line |-> l,
                                        fails |-> f, seen |-> seen,
                                        err |-> r.err, put |-> r.put]]

\* The transactions made without a status callback by start_scd (GETINFO,
\* call-scd.c:473-474, OPTION, 507), agent_reset_scd (RESTART, 594-595) and
\* agent_card_killscd (KILLSCD, 1683-1684).
NoCallbackCalls == {"getinfo", "option", "restart", "killscd"}

\* A status line arrives in one of them: assuan_transact has no callback
\* to call and goes on.  The line is recorded.
SupervisorStatusLine(t, lines) ==
  /\ pc[t] \in NoCallbackCalls
  /\ status[t].n < MaxLines
  /\ UNCHANGED << exchange, kbx >>
  /\ \E l \in lines :
       status' = [status EXCEPT ![t] = [NoStatus EXCEPT !.n = status[t].n + 1,
                                                        !.line = l]]
  /\ UNCHANGED << scd_local, registry, start_scd_lock, live, peer, daemons,
                  cache, disable_scdaemon, pc, op, via, ctx, err, left, ret,
                  pre, acquired >>

\* A line of the daemon's response as assuan_transact reads it: a status
\* line ("S"), a data line ("D") or an inquiry ("INQUIRE").
Arrived(type, line) == [type |-> type, line |-> line]

\* The status lines looked at in a raw passthrough transaction: comment
\* lines, a keyword that begins with the comment marker, a keyword of 200
\* characters, PADDING, and PINCACHE_PUT lines that are ignored, put a PIN,
\* or fail.
ThruLines ==
  { << Comment >>, << Comment, KeyToken(1) >>, << << "#", "1" >> >>,
    << Filled("K", KeywordSize), KeyToken(1) >>, << PADDING, KeyToken(1) >>,
    << PINCACHE_PUT >>, << PINCACHE_PUT, KeyToken(MinKeyLen) >>,
    << PINCACHE_PUT, KeyToken(MinKeyLen), Filled("A", MinHexLen) >>,
    << PINCACHE_PUT, KeyToken(MinKeyLen), Filled("g", MinHexLen) >> }

\* The status lines looked at in the transactions of the operation o; a
\* keygrip of n hex digits, a serial number and an id.
OpLines(o) ==
  LET Grip(n) == Filled("A", n)
      CardNo == << "D", "2", "7", "6" >>
      KeyId == << "O", "P", ".", "1" >> IN
  CASE o = "scd" -> ThruLines
    [] o = "learn" ->
         { << Chars("CERTINFO"), KeyId >>, << Chars("KEYPAIRINFO"), KeyId >>,
           << Chars("SERIALNO"), CardNo >>, << Chars("SERIALNO") >>,
           << PINCACHE_PUT, KeyToken(MinKeyLen), Filled("g", MinHexLen) >> }
    [] o = "serialno" ->
         { << Chars("SERIALNO"), CardNo >>, << Chars("SERIALNO"), CardNo, KeyId >>,
           << Chars("SERIALNO") >>, << Chars("SERIALNO"), SubSeq(CardNo, 1, 3) >>,
           << Chars("SERIALNO"), CardNo \o << "." >> >>,
           << Chars("SERIALNO"), KeyId >>, << Chars("KEYINFO"), CardNo >> }
    [] o = "keyinfo" ->
         { << Chars("KEYINFO"), Grip(n), << "T" >>, CardNo, KeyId >> :
             n \in (KeygripLen - 1) .. (KeygripLen + 1) }
           \cup { << Chars("KEYINFO"), Grip(KeygripLen), << "T" >>,
                    SubSeq(CardNo, 1, 2), KeyId, KeyId >>,
                  << Chars("KEYINFO"), Grip(KeygripLen), CardNo, KeyId >>,
                  << Chars("KEYINFO"), Grip(KeygripLen), << "T" >>, KeyId >>,
                  << Chars("KEYINFO"), Grip(KeygripLen), << "T" >>, KeyId,
                     KeyId >>,
                  << Chars("KEYINFO"), Grip(KeygripLen), << "T" >>, CardNo >>,
                  << Chars("KEYINFO"), Grip(KeygripLen) >>,
                  << Chars("SERIALNO"), CardNo >> }
    [] OTHER -> { << PADDING, KeyToken(1) >>,
                  << PINCACHE_PUT, KeyToken(MinKeyLen) >>,
                  << PINCACHE_PUT, KeyToken(MinKeyLen), Filled("g", MinHexLen) >> }

\* ASSUAN_LINELENGTH of libassuan, the size of line[] (call-scd.c:1093).
LineLength == 1002
\* call-scd.c:1111: the room kept in line[] for what is not hex digits.
LineReserve == 50

\* A faulty variant of Hex: the two digits of a byte change places.
HexSwapped(bytes) ==
  LET digits == << "0", "1", "2", "3", "4", "5", "6", "7", "8", "9",
                   "A", "B", "C", "D", "E", "F" >> IN
  [i \in 1 .. 2 * Len(bytes) |->
     IF i % 2 = 0 THEN digits[(bytes[(i + 1) \div 2] \div 16) + 1]
                  ELSE digits[(bytes[(i + 1) \div 2] % 16) + 1]]

\* sprintf (p, "%02X", indata[len]) for each of bytes (call-scd.c:1113-
\* 1114).
Hex(bytes) ==
  LET digits == << "0", "1", "2", "3", "4", "5", "6", "7", "8", "9",
                   "A", "B", "C", "D", "E", "F" >> IN
  [i \in 1 .. 2 * Len(bytes) |->
     IF i % 2 = 1 THEN digits[(bytes[(i + 1) \div 2] \div 16) + 1]
                  ELSE digits[(bytes[(i + 1) \div 2] % 16) + 1]]

\* The command line agent_card_pkdecrypt builds when len bytes of indata
\* have been sent (call-scd.c:1106-1115, 1129), and the value of len after
\* it: a SETDATA line with as many of the bytes left as the inner loop
\* takes, or the PKDECRYPT line when none is left.
DecryptLine(indata, len) ==
  LET n == Cardinality({ i \in 0 .. Len(indata) - len - 1 :
                           i * 2 < LineLength - LineReserve }) IN
  IF len < Len(indata)
    THEN [line |-> Chars("SETDATA ")
                     \o (IF len # 0 THEN Chars("--append ") ELSE << >>)
                     \o Hex(SubSeq(indata, len + 1, len + n)),
          len |-> len + n]
    ELSE [line |-> Chars("PKDECRYPT ") \o << "k", "e", "y", "i", "d" >>,
          len |-> len]

\* The inputs looked at: all of up to 2 bytes from a few values, and some
\* that fill one line of SETDATA but for one byte, fill it, or need a
\* second or a third line.
Indata ==
  LET few == {0, 10, 171, 255}
      chunk == (LineLength - LineReserve) \div 2 IN
  { << >> } \cup { << a >> : a \in few } \cup { << a, b >> : a, b \in few }
    \cup { [i \in 1 .. n |-> (i * 7) % 256] :
             n \in {chunk - 1, chunk, chunk + 1, 2 * chunk, 2 * chunk + 1} }

\* The bytes of exchange.indata sent so far: two hex digits each.
SentLen ==
  IF exchange.sent = << >> \/ exchange.sent[1][1] # "S" THEN 0
  ELSE
    LET F[i \in 0 .. Len(exchange.sent)] ==
             IF i = 0 THEN 0
             ELSE IF exchange.sent[i][1] = "S"
             THEN F[i - 1] + (Len(exchange.sent[i]) - 8
                                - (IF i > 1 THEN 9 ELSE 0)) \div 2
             ELSE F[i - 1]
    IN F[Len(exchange.sent)]

\* agent_card_pkdecrypt is called with indata and start_scd has returned 0:
\* the first command line is sent (call-scd.c:1104-1117).
pkdecrypt_call ==
  /\ exchange = NoExchange
  /\ \E indata \in Indata :
       exchange' = [NoExchange EXCEPT
                      !.indata = indata,
                      !.sent = << DecryptLine(indata, 0).line >>]
  /\ UNCHANGED << kbx, scd_local, registry, start_scd_lock, live, peer, daemons,
                  cache, disable_scdaemon, pc, op, via, ctx, err, left, ret,
                  pre, acquired, status >>

\* assuan_transact returns rc: after an error, and after PKDECRYPT, the
\* operation ends; else the next command line is sent (call-scd.c:1116-
\* 1134).
pkdecrypt_next ==
  /\ Len(exchange.sent) > Len(exchange.results)
  /\ \E rc \in {OK, GPG_ERR_CARD} :
       exchange' =
         [exchange EXCEPT
            !.results = Append(@, rc),
            !.sent = IF rc # OK \/ exchange.sent[Len(exchange.sent)][1] = "P"
                       THEN @
                       ELSE Append(@, DecryptLine(exchange.indata,
                                                  SentLen).line)]
  /\ UNCHANGED << kbx, scd_local, registry, start_scd_lock, live, peer, daemons,
                  cache, disable_scdaemon, pc, op, via, ctx, err, left, ret,
                  pre, acquired, status >>

\* agent_card_pkdecrypt has returned.
pkdecrypt_return ==
  /\ exchange.sent # << >>
  /\ Len(exchange.sent) = Len(exchange.results)
  /\ exchange' = NoExchange
  /\ UNCHANGED << kbx, scd_local, registry, start_scd_lock, live, peer, daemons,
                  cache, disable_scdaemon, pc, op, via, ctx, err, left, ret,
                  pre, acquired, status >>

\* assuan_transact is called (e.g. call-scd.c:1019): the command line of
\* the operation's next transaction is sent.
SendCommand(t) ==
  /\ pc[t] = "transact"
  /\ Len(exchange.sent) = Len(exchange.results)
  /\ exchange' = [exchange EXCEPT
                    !.sent = Append(@, Command(op[t], left[t], @ = << >>))]
  /\ UNCHANGED << kbx, scd_local, registry, start_scd_lock, live, peer, daemons,
                  cache, disable_scdaemon, pc, op, via, ctx, err, left, ret,
                  pre, acquired, status >>

\* An inquiry arrives in a transaction that has an inquiry callback:
\* assuan_transact calls it with the line.  The PIN callback or the
\* client asked may fail.  The inquiries looked at are those inq_needpin
\* answers itself, KEYDATA, and one more.
ResponseInquiry(t) ==
  \E k \in {"NEEDPIN", "POPUPPINPADPROMPT", "DISMISSPINPADPROMPT",
             "PINCACHE_GET", "KEYDATA", "CERTINFO"},
     f \in { {}, {"getpin_cb"}, {"assuan_inquire"} } :
    LET l == << Chars(k), KeyToken(1) >>
        r == InquireCb(op[t], left[t], l, f) IN
    /\ \/ op[t] \in {"scd", "writekey"}
       \/ op[t] \in {"pksign", "pkdecrypt"} /\ left[t] = 1
    /\ Len(exchange.sent) > Len(exchange.results)
    /\ Len(exchange.arrived) < MaxResponse
    /\ Handled(t, r)
    /\ exchange' = [exchange EXCEPT
                      !.arrived = Append(@, Arrived("INQUIRE", l)),
                      !.calls = @ \o r.up,
                      !.results = IF r.err = OK THEN @ ELSE Append(@, r.err),
                      !.out = IF r.err = OK THEN @
                              ELSE Finish(op[t], r.err, exchange.parm).out]
    /\ UNCHANGED << status, kbx >>

\* A status line arrives in a transaction of a card operation (e.g. call-
\* scd.c:1664-1667): assuan_transact calls the status callback with it.
\* The allocations of the callbacks succeed.  When the callback returns an
\* error the operation ends with it as in ResponseDone.
ResponseStatus(t) ==
  \E l \in OpLines(op[t]) :
    LET r == LineCb(op[t], left[t], exchange.parm, l, {}) IN
    /\ Len(exchange.sent) > Len(exchange.results)
    /\ Len(exchange.arrived) < MaxResponse
    /\ Handled(t, r)
    /\ exchange' = [exchange EXCEPT
                      !.arrived = Append(@, Arrived("S", l)),
                      !.calls = @ \o r.up,
                      !.parm = r.parm,
                      !.results = IF r.err = OK THEN @ ELSE Append(@, r.err),
                      !.out = IF r.err = OK THEN @
                              ELSE Finish(op[t], r.err, r.parm).out]
    /\ UNCHANGED << status, kbx >>

\* A data line arrives in a transaction that has a data callback:
\* assuan_transact calls it with the bytes.
ResponseData(t) ==
  \E buffer \in { << "d" >> } :
    LET r == IF DataCb(op[t], left[t]) = "pass_data_thru"
               THEN pass_data_thru(buffer)
               ELSE put_membuf_cb(exchange.parm, buffer) IN
    /\ DataCb(op[t], left[t]) # "NULL"
    /\ Len(exchange.sent) > Len(exchange.results)
    /\ Len(exchange.arrived) < MaxResponse
    /\ Handled(t, r)
    /\ exchange' = [exchange EXCEPT
                      !.arrived = Append(@, Arrived("D", buffer)),
                      !.calls = @ \o r.up,
                      !.parm = r.parm,
                      !.results = IF r.err = OK THEN @ ELSE Append(@, r.err),
                      !.out = IF r.err = OK THEN @
                              ELSE Finish(op[t], r.err, r.parm).out]
    /\ UNCHANGED << status, kbx >>

\* assuan_transact returned rc to a card operation, all lines of the
\* response looked at: after an error, or after its last transaction, the
\* operation stores its result and calls unlock_scd; else it goes on with
\* the next transaction.
ResponseDone(t) ==
  \E rc \in {OK, GPG_ERR_CARD} :
    LET f == Finish(op[t], rc, exchange.parm) IN
    /\ pc[t] = "transact"
    /\ Len(exchange.sent) > Len(exchange.results)
    /\ UNCHANGED << kbx, scd_local, registry, start_scd_lock, live, peer, daemons,
                    cache, disable_scdaemon, op, pre, acquired >>
    /\ via' = [via EXCEPT ![t] = "none"]
    /\ status' = [status EXCEPT ![t] = NoStatus]
    /\ IF rc = OK /\ left[t] > 1
         THEN /\ left' = [left EXCEPT ![t] = @ - 1]
              /\ UNCHANGED << pc, ctx, err, ret >>
              /\ exchange' = [exchange EXCEPT !.results = Append(@, rc)]
         ELSE /\ left' = [left EXCEPT ![t] = IF rc = OK THEN 0 ELSE @]
              /\ Task(t, OpNext(op[t], f.err), NULL, f.err, OK)
              /\ exchange' = [exchange EXCEPT !.results = Append(@, rc),
                                              !.out = f.out]

\* The PINCACHE_PUT line of a PIN the daemon wrapped.
PutLine == << PINCACHE_PUT, KeyToken(MinKeyLen), Filled("A", MinHexLen) >>

\* A PINCACHE_PUT status line with a cryptogram arrives in a transaction
\* whose status callback handles it, and nothing fails (call-scd.c:729-730).
StatusPincachePut(t) ==
  /\ HasStatusCb(op[t], left[t])
  /\ Deliver(t, PutLine, {}, FALSE)
  /\ UNCHANGED << status, exchange, kbx >>

\* assuan_transact of a card operation returned: on an error the operation
\* calls unlock_scd with it; after the last one it checks the result and
\* calls unlock_scd with what it found (e.g. call-scd.c:1202-1221).
TransactDone(t) ==
  /\ pc[t] = "transact"
  /\ UNCHANGED << scd_local, registry, start_scd_lock, live, peer, daemons,
                  cache, disable_scdaemon, op, pre, acquired >>
  /\ via' = [via EXCEPT ![t] = "none"]
  /\ status' = [status EXCEPT ![t] = NoStatus]
  /\ UNCHANGED << exchange, kbx >>
  /\ \/ /\ Task(t, OpNext(op[t], GPG_ERR_CARD), NULL, GPG_ERR_CARD, OK)
        /\ UNCHANGED left
     \/ /\ left[t] > 1
        /\ left' = [left EXCEPT ![t] = @ - 1]
        /\ UNCHANGED << pc, ctx, err, ret >>
     \/ /\ left[t] = 1
        /\ left' = [left EXCEPT ![t] = 0]
        /\ \E e \in {OK} \cup PostErrors(op[t]) :
             Task(t, OpNext(op[t], e), NULL, e, OK)

\* unlock_scd (call-scd.c:160-191), called with rc = err[t].
unlock_scd(t) ==
  /\ pc[t] = "unlock"
  /\ start_scd_lock = NULL
  /\ scd_local' = [scd_local EXCEPT ![t] = UnlockLocal(@)]
  /\ Released(UnlockReleases(scd_local[t]))
  /\ acquired' = [acquired EXCEPT ![t] = FALSE]
  /\ pre' = [pre EXCEPT ![t] = scd_local[t].in_use]
  /\ Task(t, "ret", NULL, err[t], UnlockRc(scd_local[t].in_use, err[t]))
  /\ UNCHANGED << op, via, status, exchange, kbx, left, disable_scdaemon, cache, registry,
                  start_scd_lock, daemons >>

\* The call has returned; the caller goes on.
Returned(t) ==
  /\ pc[t] = "ret"
  /\ Task(t, "idle", NULL, OK, OK)
  /\ op' = [op EXCEPT ![t] = "none"]
  /\ via' = [via EXCEPT ![t] = "none"]
  /\ status' = [status EXCEPT ![t] = NoStatus]
  /\ exchange' = NoExchange
  /\ left' = [left EXCEPT ![t] = 0]
  /\ pre' = [pre EXCEPT ![t] = FALSE]
  /\ UNCHANGED << kbx, scd_local, registry, start_scd_lock, live, peer, daemons,
                  cache, disable_scdaemon, acquired >>

----------------------------------------------------------------------------
(* The daemon and wait_child_thread *)

\* The daemon process exits (by itself, on KILLSCD, or killed by a signal).
DaemonExit(d) ==
  /\ d \in running
  /\ running' = running \ {d}
  /\ UNCHANGED << scd_local, registry, start_scd_lock, live, peer, launched,
                  reaper, cache, disable_scdaemon, pc, op, via, status, exchange, kbx, ctx, err, left,
                  ret, pre, acquired >>

\* call-scd.c:222-249: waitpid reports that the daemon exited or was killed
\* by a signal; the PIN cache is flushed.
ReaperWaitpid(d) ==
  /\ reaper[d] = "waitpid"
  /\ d \notin running
  /\ cache' = {}
  /\ reaper' = [reaper EXCEPT ![d] = "lock"]
  /\ UNCHANGED << scd_local, registry, start_scd_lock, live, peer, launched,
                  running, disable_scdaemon, pc, op, via, status, exchange, kbx, ctx, err, left, ret,
                  pre, acquired >>

\* A faulty variant of WaitOutcome: a stopped daemon is taken for a
\* finished one.
WaitOutcomeStopCleans(st) ==
  IF st \in {"exited", "signaled", "stopped"} THEN "lock" ELSE "again"

\* call-scd.c:227-243: where wait_child_thread goes when waitpid returned
\* with the status st: on to the cleanup for a daemon that exited or was
\* killed by a signal, back to waitpid for one that was stopped and after
\* EINTR.
WaitOutcome(st) ==
  IF st \in {"exited", "signaled"} THEN "lock" ELSE "again"

\* call-scd.c:222-249: waitpid returns.  It reports the end of the daemon
\* once the daemon has ended; before that it can only be interrupted or
\* report a stop.  The PIN cache is flushed on the way to the cleanup.
\* (waitpid fails with nothing but EINTR: the daemon is a child of the
\* agent, and nothing else collects its status, since no function of this
\* file releases the primary context while its wait_child_thread waits.)
ReaperWaitReturns(d) ==
  /\ reaper[d] = "waitpid"
  /\ \E st \in (IF d \in running THEN {"stopped", "eintr"}
                                  ELSE {"exited", "signaled"}) :
       /\ reaper' = [reaper EXCEPT ![d] = WaitOutcome(st)]
       /\ cache' = IF WaitOutcome(st) = "lock" THEN {} ELSE cache
  /\ UNCHANGED << scd_local, registry, start_scd_lock, live, peer, launched,
                  running, disable_scdaemon, pc, op, via, status, exchange, kbx, ctx, err, left, ret,
                  pre, acquired >>

\* call-scd.c:221, 229, 241: goto again.
ReaperAgain(d) ==
  /\ reaper[d] = "again"
  /\ reaper' = [reaper EXCEPT ![d] = "waitpid"]
  /\ UNCHANGED << scd_local, registry, start_scd_lock, live, peer, launched,
                  running, cache, disable_scdaemon, pc, op, via, status, exchange, kbx, ctx, err,
                  left, ret, pre, acquired >>

\* A faulty variant of ReaperLocal: every session is only marked invalid.
ReaperLocalKeepsCtx(sl) == [sl EXCEPT !.invalid = TRUE]

\* call-scd.c:263-268: what the cleanup does to one session of the list.
ReaperLocal(sl) ==
  IF ~ sl.in_use /\ sl.ctx # NULL
    THEN [sl EXCEPT !.invalid = TRUE, !.ctx = NULL]
    ELSE [sl EXCEPT !.invalid = TRUE]

\* call-scd.c:264-266: the context the cleanup releases for one session.
ReaperReleases(sl) == IF ~ sl.in_use /\ sl.ctx # NULL THEN {sl.ctx} ELSE {}

\* A faulty variant of ReaperLocks: the cleanup does not wait for the lock.
ReaperIgnoresLock(lock) == TRUE

\* call-scd.c:251: npth_mutex_lock returns in wait_child_thread once no
\* task holds the lock.
ReaperLocks(lock) == lock = NULL

\* call-scd.c:251-281: the cleanup, done under the lock without blocking.
ReaperCleanup(d) ==
  /\ reaper[d] = "lock"
  /\ ReaperLocks(start_scd_lock)
  /\ scd_local' = [t \in Tasks |->
                     IF InList(t) THEN ReaperLocal(scd_local[t])
                                  ELSE scd_local[t]]
  /\ Released(UNION {ReaperReleases(scd_local[t]) : t \in {x \in Tasks : InList(x)}})
  /\ primary_scd_ctx' = NULL
  /\ primary_scd_ctx_reusable' = FALSE
  /\ socket_name' = NULL
  /\ reaper' = [reaper EXCEPT ![d] = "done"]
  /\ UNCHANGED << scd_local_list, start_scd_lock, launched, running, cache,
                  disable_scdaemon, pc, op, via, status, exchange, kbx, ctx, err, left, ret, pre,
                  acquired >>

----------------------------------------------------------------------------
(* agent_reset_scd *)

\* A faulty variant of ResetKeeps: the connection is released whether or
\* not it is the primary one.
ResetKeepsNone(sl, primary) == FALSE

\* call-scd.c:582: whether the session's connection is kept for reuse.
ResetKeeps(sl, primary) == sl.ctx = primary

\* call-scd.c:603-620: the session is unlinked and freed, the lock released.
ResetUnlink(t) ==
  /\ scd_local' = [scd_local EXCEPT ![t] = NoLocal]
  /\ scd_local_list' = Unlink(scd_local_list, t)
  /\ start_scd_lock' = NULL
  /\ acquired' = [acquired EXCEPT ![t] = FALSE]
  /\ Task(t, "ret", NULL, OK, OK)

\* call-scd.c:565-601: agent_reset_scd takes the lock.  A session without a
\* record or without a connection is done at once; a connection other than
\* the primary one is released; for the primary one RESTART is sent, with
\* the lock held.
agent_reset_scd(t) ==
  /\ pc[t] = "idle"
  /\ start_scd_lock = NULL
  /\ op' = [op EXCEPT ![t] = "reset"]
  /\ UNCHANGED << via, status, exchange, kbx >>
  /\ pre' = [pre EXCEPT ![t] = scd_local[t].in_use]
  /\ UNCHANGED << daemons, cache, disable_scdaemon, left, socket_name,
                  primary_scd_ctx, primary_scd_ctx_reusable >>
  /\ LET sl == scd_local[t] IN
     IF ~ sl.has
       THEN /\ Task(t, "ret", NULL, OK, OK)
            /\ UNCHANGED << scd_local, scd_local_list, start_scd_lock, live,
                            peer, acquired >>
     ELSE IF sl.ctx # NULL /\ ResetKeeps(sl, primary_scd_ctx)
       THEN /\ start_scd_lock' = t
            /\ Task(t, "restart", NULL, OK, OK)
            /\ UNCHANGED << scd_local, scd_local_list, live, peer, acquired >>
     ELSE /\ Released({sl.ctx} \ {NULL})
          /\ ResetUnlink(t)

\* call-scd.c:594-620: the RESTART transaction returned (its result is
\* ignored); the primary connection is marked reusable.
ResetRestarted(t) ==
  /\ pc[t] = "restart"
  /\ primary_scd_ctx_reusable' = TRUE
  /\ ResetUnlink(t)
  /\ UNCHANGED << daemons, cache, disable_scdaemon, op, via, left, pre,
                  socket_name, primary_scd_ctx, live, peer >>
  /\ status' = [status EXCEPT ![t] = NoStatus]
  /\ UNCHANGED << exchange, kbx >>

----------------------------------------------------------------------------
(* agent_card_killscd *)

\* A faulty variant of KillscdSends: KILLSCD is sent in any case.
KillscdAlwaysSends(primary) == TRUE

\* call-scd.c:1681-1682: agent_card_killscd goes on only with a primary
\* connection.
KillscdSends(primary) == primary # NULL

\* call-scd.c:1678-1684: nothing without a primary connection; else KILLSCD
\* is sent on it.
agent_card_killscd(t) ==
  /\ pc[t] = "idle"
  /\ op' = [op EXCEPT ![t] = "killscd"]
  /\ UNCHANGED << via, status, exchange, kbx >>
  /\ IF KillscdSends(primary_scd_ctx)
       THEN Task(t, "killscd", primary_scd_ctx, OK, OK)
       ELSE Task(t, "ret", NULL, OK, OK)
  /\ UNCHANGED << scd_local, registry, start_scd_lock, live, peer, daemons,
                  cache, disable_scdaemon, left, pre, acquired >>

\* call-scd.c:1683-1685: the KILLSCD transaction returned; the PIN cache is
\* flushed.
KillscdDone(t) ==
  /\ pc[t] = "killscd"
  /\ cache' = agent_flush_cache(cache)
  /\ Task(t, "ret", NULL, OK, OK)
  /\ UNCHANGED << scd_local, registry, start_scd_lock, live, peer, daemons,
                  disable_scdaemon, op, via, left, pre, acquired >>
  /\ status' = [status EXCEPT ![t] = NoStatus]
  /\ UNCHANGED << exchange, kbx >>

----------------------------------------------------------------------------
(* keybox-update.c: blob_filecopy *)

\* The keybox files there are: up to MaxBlobs blobs one after the other
\* (the header blob is not counted).
Contents ==
  { File(c) : c \in UNION { [1 .. n -> 1 .. MaxBlobs] : n \in 0 .. MaxBlobs } }

\* What blob_filecopy writes to the new file from the blobs of the old one
\* (keybox-update.c:236-312): for an insert (mode 1) all of them and then
\* the blob; for a delete (2) and an update (3) those before start_offset
\* and those after the blob found there, for an update with the new blob
\* in between.  start_offset counts the blobs before the one found.
Copied(mode, old, blob, start_offset) ==
  LET first == SubSeq(old.blobs, 1, start_offset)
      rest == SubSeq(old.blobs, start_offset + 2, Len(old.blobs)) IN
  CASE mode = 1 -> File(old.blobs \o << blob >>)
    [] mode = 2 -> File(first \o rest)
    [] mode = 3 -> File(first \o << blob >> \o rest)

\* blob_filecopy returns rc (keybox-update.c:329-332 and the returns
\* before).
KeyboxReturn(k, rc) == [k EXCEPT !.pc = "ret", !.rc = rc]

\* keybox-update.c:189-233: blob_filecopy is called.  access fails for a
\* file that does not exist and may fail for one that does; then fopen
\* may fail; for an insert, were the file found missing by fopen, the file
\* would be created with the blob alone (195-219); else create_tmp_file
\* (84-110) allocates the two names and opens the temporary file, which
\* creates or empties it.
blob_filecopy(mode, blob, secret, start_offset) ==
  LET k == [kbx EXCEPT !.mode = mode, !.blob = blob, !.secret = secret,
                       !.start_offset = start_offset, !.orig = kbx.fname]
      access == IF kbx.fname = NoFile THEN {GPG_ERR_ENOENT}
                                      ELSE {OK, SYSERROR}
      fopen == IF kbx.fname = NoFile THEN {GPG_ERR_ENOENT}
                                     ELSE {OK, SYSERROR} IN
  /\ kbx.pc = "idle"
  /\ \E a \in access, o \in fopen :
       IF a # OK THEN kbx' = KeyboxReturn(k, a)
       ELSE IF mode = 1 /\ o = GPG_ERR_ENOENT
         THEN \/ kbx' = KeyboxReturn(k, SYSERROR)
              \/ \E c \in {<< >>, << blob >>} :
                   kbx' = KeyboxReturn([k EXCEPT !.fname = File(c)], SYSERROR)
              \/ kbx' = KeyboxReturn([k EXCEPT !.fname = File(<< blob >>)], OK)
       ELSE IF o # OK THEN kbx' = KeyboxReturn(k, o)
       ELSE \/ kbx' = KeyboxReturn(k, SYSERROR)
            \/ kbx' = [k EXCEPT !.tmpfname = File(<< >>), !.pc = "copy"]
  /\ UNCHANGED << scd_local, registry, start_scd_lock, live, peer, daemons,
                  cache, disable_scdaemon, pc, op, via, ctx, err, left, ret,
                  pre, acquired, status, exchange >>

\* keybox-update.c:235-325: the blobs are copied to the temporary file and
\* both files are closed.  A failed fread, fwrite, _keybox_read_blob (which
\* also fails when no blob is at start_offset), _keybox_write_blob or
\* fclose ends the call with what was written so far in the temporary
\* file.
keybox_copy ==
  LET new == Copied(kbx.mode, kbx.fname, kbx.blob, kbx.start_offset)
      found == kbx.mode = 1 \/ kbx.start_offset < Len(kbx.fname.blobs) IN
  /\ kbx.pc = "copy"
  /\ \/ \E n \in 0 .. Len(new.blobs) :
          kbx' = KeyboxReturn([kbx EXCEPT
                                !.tmpfname = File(SubSeq(new.blobs, 1, n))],
                              SYSERROR)
     \/ /\ found
        /\ kbx' = [kbx EXCEPT !.tmpfname = new, !.pc = "rename"]
  /\ UNCHANGED << scd_local, registry, start_scd_lock, live, peer, daemons,
                  cache, disable_scdaemon, pc, op, via, ctx, err, left, ret,
                  pre, acquired, status, exchange >>

\* rename_tmp_file (keybox-update.c:114-169) and the return of its result
\* (327-332): unless the keybox is a secret one the keybox file is renamed
\* to the backup name; then the temporary file is renamed to the name of
\* the keybox file.  Either rename may fail.
rename_tmp_file ==
  LET backed == IF kbx.secret THEN kbx
                ELSE [kbx EXCEPT !.bakfname = kbx.fname, !.fname = NoFile] IN
  /\ kbx.pc = "rename"
  /\ \/ ~ kbx.secret /\ kbx' = KeyboxReturn(kbx, SYSERROR)
     \/ kbx' = KeyboxReturn(backed, SYSERROR)
     \/ kbx' = KeyboxReturn([backed EXCEPT !.fname = kbx.tmpfname,
                                           !.tmpfname = NoFile], OK)
  /\ UNCHANGED << scd_local, registry, start_scd_lock, live, peer, daemons,
                  cache, disable_scdaemon, pc, op, via, ctx, err, left, ret,
                  pre, acquired, status, exchange >>

\* The caller of blob_filecopy goes on.
KeyboxReturned ==
  /\ kbx.pc = "ret"
  /\ kbx' = [kbx EXCEPT !.pc = "idle"]
  /\ UNCHANGED << scd_local, registry, start_scd_lock, live, peer, daemons,
                  cache, disable_scdaemon, pc, op, via, ctx, err, left, ret,
                  pre, acquired, status, exchange >>

----------------------------------------------------------------------------
(* Specifications *)

\* What happens inside start_scd, unlock_scd and agent_reset_scd once task t
\* has called them.
InsideCall(t) ==
  \/ StartLocked(t)
  \/ PipeConnected(t)
  \/ GetinfoDone(t)
  \/ OptionDone(t)
  \/ StartErrUnlock(t)
  \/ unlock_scd(t)
  \/ Returned(t)
  \/ agent_reset_scd(t)
  \/ ResetRestarted(t)

\* The daemon and its wait_child_thread.
Background ==
  \/ \E d \in Daemons : DaemonExit(d)
  \/ \E d \in Daemons : ReaperWaitpid(d)
  \/ \E d \in Daemons : ReaperCleanup(d)

Inside ==
  \/ \E t \in Tasks : InsideCall(t)
  \/ \E t \in Tasks : SocketConnected(t)
  \/ Background

\* The agent: every task serves one connection and calls card operations
\* and agent_reset_scd one after the other.
Next ==
  \/ Inside
  \/ \E t \in Tasks : CardOp(t, {"learn"})
  \/ \E t \in Tasks : TransactDone(t)

Spec == Init /\ [][Next]_vars

\* The same with agent_card_killscd and the PIN cache filled by the daemon.
NextCache ==
  \/ Next
  \/ \E t \in Tasks : StatusPincachePut(t)
  \/ \E t \in Tasks : agent_card_killscd(t)
  \/ \E t \in Tasks : KillscdDone(t)

SpecCache == Init /\ [][NextCache]_vars

\* start_scd is called by itself, on a session in any state.
RawAcquire(t) ==
  /\ pc[t] = "idle"
  /\ Call_start_scd(t, "start_scd", 0)

\* unlock_scd is called by itself with the status rc, on a session in any
\* state that has a record (unlock_scd dereferences ctrl->scd_local).
RawRelease(t) ==
  /\ pc[t] = "idle"
  /\ scd_local[t].has
  /\ \E rc \in {OK, GPG_ERR_CARD} : Task(t, "unlock", NULL, rc, OK)
  /\ op' = [op EXCEPT ![t] = "unlock_scd"]
  /\ UNCHANGED << via, status, exchange, kbx >>
  /\ UNCHANGED << scd_local, registry, start_scd_lock, live, peer, daemons,
                  cache, disable_scdaemon, left, pre, acquired >>

\* Every sequence of start_scd, unlock_scd and agent_reset_scd calls by
\* each task, paired or not.
NextSeq ==
  \/ Inside
  \/ \E t \in Tasks : RawAcquire(t)
  \/ \E t \in Tasks : RawRelease(t)

SpecSeq == Init /\ [][NextSeq]_vars

\* One task calls every card operation with every input and outcome, and
\* agent_reset_scd, while the daemon exits and is started again.  (A task
\* alone never connects to the socket: its session keeps the primary
\* connection until it resets it.)
NextOps ==
  \/ InsideCall(Lowest(Tasks))
  \/ CardOp(Lowest(Tasks), Ops)
  \/ TransactDone(Lowest(Tasks))
  \/ Background

SpecOps == Init /\ [][NextOps]_vars

\* One task with every card operation, the daemon sending status lines in
\* its transactions.
NextPin ==
  \/ InsideCall(Lowest(Tasks))
  \/ CardOp(Lowest(Tasks), Ops)
  \/ TransactDone(Lowest(Tasks))
  \/ StatusLine(Lowest(Tasks), Lines, Failures)
  \/ SupervisorStatusLine(Lowest(Tasks), Lines)
  \/ agent_card_killscd(Lowest(Tasks))
  \/ KillscdDone(Lowest(Tasks))

SpecPin == Init /\ [][NextPin]_vars

\* One task calls every card operation; the lines of the daemon's response
\* are looked at one by one.
NextResponse ==
  \/ InsideCall(Lowest(Tasks))
  \/ CardOp(Lowest(Tasks), Ops)
  \/ SendCommand(Lowest(Tasks))
  \/ ResponseInquiry(Lowest(Tasks))
  \/ ResponseStatus(Lowest(Tasks))
  \/ ResponseData(Lowest(Tasks))
  \/ ResponseDone(Lowest(Tasks))

SpecResponse == Init /\ [][NextResponse]_vars

\* agent_card_pkdecrypt is called with every input and sends its command
\* lines.
NextDecrypt == pkdecrypt_call \/ pkdecrypt_next \/ pkdecrypt_return

SpecDecrypt == Init /\ [][NextDecrypt]_vars

\* blob_filecopy is called again and again, with every mode, blob and
\* offset, on a keybox file that is missing or has any content; a file
\* reaches MaxBlobs blobs at most.
InitKeybox ==
  /\ InitAgent
  /\ \E c \in {NoFile} \cup Contents : kbx = [NoKeybox EXCEPT !.fname = c]

NextKeybox ==
  \/ \E secret \in BOOLEAN, blob \in 1 .. MaxBlobs :
       \/ /\ Len(kbx.fname.blobs) < MaxBlobs
          /\ blob_filecopy(1, blob, secret, 0)
       \/ \E mode \in {2, 3} :
            \E start_offset \in
                  0 .. Len(kbx.fname.blobs) :
              blob_filecopy(mode, blob, secret, start_offset)
  \/ keybox_copy
  \/ rename_tmp_file
  \/ KeyboxReturned

SpecKeybox == InitKeybox /\ [][NextKeybox]_vars

\* One task calls agent_card_learn and agent_reset_scd while the daemon is
\* stopped, continued, and exits, and waitpid is interrupted.
NextReaper ==
  \/ InsideCall(Lowest(Tasks))
  \/ CardOp(Lowest(Tasks), {"learn"})
  \/ TransactDone(Lowest(Tasks))
  \/ StatusPincachePut(Lowest(Tasks))
  \/ \E d \in Daemons : DaemonExit(d)
  \/ \E d \in Daemons : ReaperWaitReturns(d)
  \/ \E d \in Daemons : ReaperAgain(d)
  \/ \E d \in Daemons : ReaperCleanup(d)

\* Fair scheduling: a call that blocks with the lock held returns (the
\* other end is the daemon, or gone), wait_child_thread runs when it can,
\* and gets the lock if the lock is free again and again.
FairReaper ==
  /\ WF_vars(InsideCall(Lowest(Tasks)))
  /\ \A d \in Daemons : WF_vars(ReaperWaitReturns(d))
  /\ \A d \in Daemons : WF_vars(ReaperAgain(d))
  /\ \A d \in Daemons : SF_vars(ReaperCleanup(d))

SpecReaper == Init /\ [][NextReaper]_vars /\ FairReaper

\* The agent of Spec with the one fairness condition that a blocking call
\* made with the lock held returns (the other end is the daemon, or gone).
SpecLock ==
  /\ Init /\ [][Next]_vars
  /\ \A t \in Tasks :
       WF_vars(SocketConnected(t) \/ PipeConnected(t) \/ GetinfoDone(t)
                 \/ OptionDone(t) \/ ResetRestarted(t))

----------------------------------------------------------------------------
(* Properties *)

\* Positions inside start_scd between line 345, which sets in_use, and the
\* return.
InStart == {"socket_connect", "pipe_connect", "getinfo", "option", "start_err"}

\* Positions at which the task is inside a blocking call made by start_scd
\* or agent_reset_scd.
LockedCalls == {"socket_connect", "pipe_connect", "getinfo", "option", "restart"}

\* The registered sessions are those with a record; a session or a running
\* start_scd never points to a released context (primary_scd_ctx may, after
\* a failed npth_create).
NoStalePointer ==
  \A t \in Tasks :
    /\ scd_local[t].has <=> InList(t)
    /\ scd_local[t].ctx # NULL => scd_local[t].ctx \in live
    /\ (pc[t] \in InStart /\ ctx[t] # NULL) => ctx[t] \in live

\* The step of wait_child_thread that does the cleanup.
ReaperCleaned == \E d \in Daemons : reaper[d] = "lock" /\ reaper'[d] = "done"

\* The step in which unlock_scd runs for task t (called by the task or by
\* start_scd on its error path).
Releases(t) == pc[t] \in {"unlock", "start_err"} /\ pc'[t] = "ret"

\* C1: for every sequence of start_scd and unlock_scd calls of a session,
\* in_use is set exactly while a successful start_scd has not been followed
\* by unlock_scd (or while start_scd itself runs after setting it); a second
\* start_scd before the unlock_scd never leaves the flag cleared.
C1_InUseIffAcquired ==
  \A t \in Tasks :
    /\ scd_local[t].in_use <=> (acquired[t] \/ pc[t] \in InStart)
    /\ (pc[t] = "ret" /\ op[t] = "start_scd" /\ pre[t]) => scd_local[t].in_use

\* A start_scd on a session in use has returned and the flag is still set.
C1_Witness ==
  \E t \in Tasks :
    /\ pc[t] = "ret" /\ op[t] = "start_scd" /\ pre[t]
    /\ scd_local[t].in_use /\ acquired[t]

\* The sessions, and the start_scd calls in progress, whose connection is
\* the primary one.
PrimaryHolders ==
  { t \in Tasks :
      /\ primary_scd_ctx # NULL
      /\ \/ scd_local[t].ctx = primary_scd_ctx
         \/ pc[t] \in InStart /\ ctx[t] = primary_scd_ctx }

\* C2: under every interleaving of start_scd, unlock_scd, agent_reset_scd
\* and wait_child_thread, at most one session holds the primary connection,
\* and while primary_scd_ctx_reusable is set no session and no start_scd in
\* progress holds it.
C2_OnePrimaryHolder ==
  /\ Cardinality(PrimaryHolders) <= 1
  /\ primary_scd_ctx_reusable => PrimaryHolders = {}

\* Two sessions are in use at once, one on the primary connection and one
\* on a connection of its own.
C2_Witness ==
  \E t, u \in Tasks :
    /\ scd_local[t].in_use /\ scd_local[t].ctx = primary_scd_ctx
    /\ primary_scd_ctx # NULL
    /\ scd_local[u].in_use /\ scd_local[u].ctx \notin {NULL, primary_scd_ctx}

\* C3 as stated: no task holds start_scd_lock while it is inside a connect
\* or a GETINFO, OPTION or RESTART transaction.
C3_NoLockAcrossCalls ==
  \A t \in Tasks : pc[t] \in LockedCalls => start_scd_lock # t

\* C3: start_scd holds start_scd_lock across assuan_socket_connect,
\* assuan_pipe_connect and the GETINFO and OPTION transactions, and
\* agent_reset_scd holds it across RESTART; a task holds the lock in no
\* other state, so unlock_scd, wait_child_thread and the transactions of
\* the card operations never block with it.
C3_LockHeldOnlyInStartAndReset ==
  \A t \in Tasks : start_scd_lock = t <=> pc[t] \in LockedCalls

\* A task waits for the lock while another holds it inside RESTART.
C3_Witness ==
  \E t, u \in Tasks :
    /\ start_scd_lock = t /\ pc[t] = "restart"
    /\ pc[u] = "start_lock"

\* No session that is not in use is connected to a daemon whose cleanup
\* has been done.
NoIdleDeadConn ==
  \A d \in Daemons : \A t \in Tasks :
    (reaper[d] = "done" /\ scd_local[t].has /\ ~ scd_local[t].in_use
       /\ scd_local[t].ctx # NULL)
      => peer[scd_local[t].ctx] # d

\* C4: when wait_child_thread has done its cleanup, every registered
\* session not in use has a null ctx, primary_scd_ctx is null,
\* primary_scd_ctx_reusable is false and socket_name is null; and no
\* session not in use is ever again connected to that daemon, whatever
\* start_scd, unlock_scd or agent_reset_scd was in progress.
C4_AfterCleanup ==
  /\ [] NoIdleDeadConn
  /\ [][ ReaperCleaned =>
           /\ \A t \in Tasks :
                (scd_local'[t].has /\ ~ scd_local'[t].in_use)
                  => scd_local'[t].ctx = NULL
           /\ primary_scd_ctx' = NULL
           /\ primary_scd_ctx_reusable' = FALSE
           /\ socket_name' = NULL ]_vars

\* The cleanup is done; it took the connection of a session not in use and
\* left that of a session in use.
C4_Witness ==
  \E d \in Daemons : \E t, u \in Tasks :
    /\ reaper[d] = "done"
    /\ primary_scd_ctx = NULL /\ socket_name = NULL
    /\ scd_local[t].has /\ ~ scd_local[t].in_use /\ scd_local[t].invalid
    /\ scd_local[t].ctx = NULL
    /\ scd_local[u].in_use /\ scd_local[u].invalid
    /\ scd_local[u].ctx # NULL /\ peer[scd_local[u].ctx] = d

\* C5: the cleanup leaves a session that is in use its ctx, unreleased, and
\* only marks it invalid; the next unlock_scd of an invalid session
\* releases the ctx, sets it to null and clears invalid and in_use.
C5_LazyCleanup ==
  [][ \A t \in Tasks :
        /\ (ReaperCleaned /\ scd_local[t].has /\ scd_local[t].in_use)
             => /\ scd_local'[t] = [scd_local[t] EXCEPT !.invalid = TRUE]
                /\ scd_local[t].ctx # NULL => scd_local[t].ctx \in live'
        /\ (Releases(t) /\ scd_local[t].invalid)
             => /\ scd_local'[t].ctx = NULL
                /\ ~ scd_local'[t].invalid
                /\ ~ scd_local'[t].in_use
                /\ scd_local[t].ctx # NULL => scd_local[t].ctx \notin live' ]_vars

\* A card operation that succeeded has returned and its session has lost
\* its ctx: unlock_scd found it invalid.
C5_Witness ==
  \E t \in Tasks :
    /\ pc[t] = "ret" /\ op[t] = "learn" /\ ret[t] = OK
    /\ scd_local[t].has /\ scd_local[t].ctx = NULL
    /\ ~ scd_local[t].invalid /\ ~ scd_local[t].in_use

\* C6: when a card operation returns, whatever its input and the outcome of
\* start_scd and of its transactions, in_use of the session is false.
C6_ReleasedOnReturn ==
  \A t \in Tasks :
    (pc[t] = "ret" /\ op[t] \in Ops)
      => (~ scd_local[t].in_use /\ ~ acquired[t])

\* agent_card_readkey has returned the validation error it found after
\* start_scd and its transaction succeeded.
C6_Witness ==
  \E t \in Tasks :
    /\ pc[t] = "ret" /\ op[t] = "readkey" /\ ret[t] = GPG_ERR_INV_VALUE
    /\ scd_local[t].has /\ scd_local[t].ctx # NULL

\* What agent_reset_scd always does to the session of t and to the others.
ResetFrees(t) ==
  /\ scd_local'[t] = NoLocal
  /\ \A i \in 1 .. Len(scd_local_list') : scd_local_list'[i] # t
  /\ \A u \in Tasks \ {t} : scd_local'[u] = scd_local[u]

\* C7: agent_reset_scd of a session whose ctx is the primary connection
\* sends RESTART, does not release the connection, leaves primary_scd_ctx
\* as it is and sets primary_scd_ctx_reusable; of a session with another
\* ctx it releases that ctx; either way the session is unlinked and
\* ctrl->scd_local becomes null, and no other session changes.
C7_Reset ==
  [][ \A t \in Tasks :
        /\ (pc[t] = "idle" /\ pc'[t] = "restart")
             => /\ scd_local[t].ctx = primary_scd_ctx
                /\ UNCHANGED << scd_local, registry, live >>
        /\ (pc[t] = "restart" /\ pc'[t] = "ret")
             => /\ primary_scd_ctx' = primary_scd_ctx
                /\ primary_scd_ctx \in live'
                /\ primary_scd_ctx_reusable'
                /\ ResetFrees(t)
        /\ (pc[t] = "idle" /\ pc'[t] = "ret" /\ op'[t] = "reset"
              /\ scd_local[t].has)
             => /\ scd_local[t].ctx = NULL
                   \/ /\ scd_local[t].ctx # primary_scd_ctx
                      /\ scd_local[t].ctx \notin live'
                /\ UNCHANGED << primary_scd_ctx, primary_scd_ctx_reusable >>
                /\ ResetFrees(t) ]_vars

\* The session on the primary connection has been reset while another
\* session is registered: the connection is there and reusable.
C7_Witness ==
  \E t, u \in Tasks :
    /\ pc[t] = "ret" /\ op[t] = "reset" /\ ~ scd_local[t].has
    /\ primary_scd_ctx_reusable /\ primary_scd_ctx \in live
    /\ scd_local[u].has /\ scd_local[u].ctx \in live

C9_DoubleAcquireFails ==
  \A t \in Tasks :
    (pc[t] = "ret" /\ op[t] = "start_scd" /\ pre[t])
      => ret[t] = GPG_ERR_INTERNAL

\* start_scd on a session in use, which owns a connection, has returned 0
\* by the fast path of call-scd.c:307-311.
C9_Witness ==
  \E t \in Tasks :
    /\ pc[t] = "ret" /\ op[t] = "start_scd" /\ pre[t]
    /\ scd_local[t].ctx # NULL /\ ret[t] = OK

\* C10: a daemon is launched only when primary_scd_ctx is null and no
\* socket_name is cached; at most one daemon launched here runs at a time;
\* primary_scd_ctx is never changed from one connection to another.
C10_OnePrimary ==
  /\ [] (Cardinality(running) <= 1)
  /\ [][ /\ launched' # launched
              => (primary_scd_ctx = NULL /\ socket_name = NULL)
         /\ primary_scd_ctx' # primary_scd_ctx
              => (primary_scd_ctx = NULL \/ primary_scd_ctx' = NULL) ]_vars

\* A second daemon runs, after the first one exited and was cleaned up, and
\* its connection is the primary one.
C10_Witness ==
  /\ launched = MaxDaemons
  /\ running = {MaxDaemons}
  /\ primary_scd_ctx # NULL /\ primary_scd_ctx \in live
  /\ peer[primary_scd_ctx] = MaxDaemons

\* The step in which the start_scd of task t, holding the lock and having
\* its session record, decides how to get a connection.
Resolves(t) == pc[t] = "start_lock" /\ via[t] = "none" /\ via'[t] # "none"

\* C11: start_scd on a session without a connection takes the reusable
\* primary connection first, clearing primary_scd_ctx_reusable and neither
\* allocating a context, connecting to the socket nor starting a daemon,
\* even when socket_name is set; only otherwise does it connect to a known
\* socket; only with no socket and no primary connection does it start the
\* daemon.
C11_ResolveOrder ==
  [][ /\ \A t \in Tasks :
           Resolves(t) =>
             /\ (primary_scd_ctx # NULL /\ primary_scd_ctx_reusable)
                  => /\ via'[t] = "reuse"
                     /\ scd_local'[t].ctx = primary_scd_ctx
                     /\ primary_scd_ctx' = primary_scd_ctx
                     /\ ~ primary_scd_ctx_reusable'
                     /\ live' = live
                     /\ pc'[t] \notin {"socket_connect", "pipe_connect"}
             /\ ~ (primary_scd_ctx # NULL /\ primary_scd_ctx_reusable)
                  => /\ via'[t] # "reuse"
                     /\ socket_name # NULL
                          => (via'[t] = "socket" /\ pc'[t] # "pipe_connect")
                     /\ socket_name = NULL => pc'[t] # "socket_connect"
             /\ pc'[t] = "pipe_connect"
                  => (primary_scd_ctx = NULL /\ socket_name = NULL)
      /\ \A t \in Tasks :
           (pc'[t] \in {"socket_connect", "pipe_connect"}
              /\ pc'[t] # pc[t]) => Resolves(t)
      /\ launched' # launched
           => \E t \in Tasks : pc[t] = "pipe_connect" /\ via[t] = "spawn" ]_vars

\* A session has just got the primary connection by reuse although a
\* socket name is cached.
C11_Witness ==
  \E t \in Tasks :
    /\ via[t] = "reuse" /\ pc[t] = "transact"
    /\ socket_name # NULL
    /\ scd_local[t].ctx = primary_scd_ctx /\ scd_local[t].in_use

\* The steps of task t.
Steps(t) == pc'[t] # pc[t]

C13_OnlyNoDaemon ==
  \A t \in Tasks :
    (pc[t] = "ret" /\ op[t] = "start_scd"
       /\ via[t] \in {"socket", "busy", "spawn"})
      => \/ ret[t] = GPG_ERR_NO_SCDAEMON
         \/ /\ ret[t] = OK
            /\ scd_local[t].ctx # NULL
            /\ peer[scd_local[t].ctx] # NULL

\* start_scd has returned 0 on the spawn path with a context that was never
\* connected: make_absfilename_try had failed.
C13_Witness ==
  \E t \in Tasks :
    /\ pc[t] = "ret" /\ op[t] = "start_scd" /\ via[t] = "spawn"
    /\ ret[t] = OK
    /\ scd_local[t].ctx # NULL /\ peer[scd_local[t].ctx] = NULL
    /\ primary_scd_ctx = NULL

\* C14: scd_local_list, primary_scd_ctx, primary_scd_ctx_reusable and
\* socket_name are written only under start_scd_lock: whenever one of them
\* changes, the lock was free for the writer to take or the writer is the
\* task that holds it, whether the writer is start_scd, unlock_scd,
\* agent_reset_scd, wait_child_thread or agent_card_killscd.
C14_WritesUnderLock ==
  [][ registry' # registry
        => \/ start_scd_lock = NULL
           \/ pc'[start_scd_lock] # pc[start_scd_lock] ]_vars

\* start_scd, holding the lock across GETINFO, has stored the socket name
\* while another task is inside agent_card_killscd.
C14_Witness ==
  \E t, u \in Tasks :
    /\ start_scd_lock = t /\ pc[t] = "option" /\ socket_name # NULL
    /\ op[u] = "killscd" /\ pc[u] = "ret"

Launching(t) == pc[t] = "pipe_connect"

\* C16: start_scd calls assuan_pipe_connect only in the step in which it
\* has flushed the PIN cache, and holds start_scd_lock from that step on:
\* when the call starts no PIN is in the cache.  A daemon is counted as
\* launched, and a new primary connection is set, only by a task that is
\* in that start_scd with the lock.
C16_FlushBeforeLaunch ==
  [][ /\ \A t \in Tasks :
            (Launching(t)' /\ ~ Launching(t))
              => /\ pc[t] = "start_lock"
                 /\ via'[t] = "spawn"
                 /\ cache' = {}
                 /\ start_scd_lock' = t
      /\ launched' # launched
           => \E t \in Tasks : /\ Launching(t)
                               /\ via[t] = "spawn"
                               /\ start_scd_lock = t
      /\ (primary_scd_ctx' # primary_scd_ctx /\ primary_scd_ctx' # NULL)
           => \E t \in Tasks : /\ via[t] = "spawn"
                               /\ start_scd_lock = t
                               /\ primary_scd_ctx' = ctx[t]
                               /\ peer[ctx[t]] = launched ]_vars

\* A second daemon is being started, after PINs of the first one had been
\* cached: the cache is empty and the lock is held.
C16_Witness ==
  \E t \in Tasks :
    /\ Launching(t)
    /\ launched > 0
    /\ cache = {}
    /\ start_scd_lock = t
    /\ \E u \in Tasks \ {t} :
         /\ pc[u] = "transact"
         /\ scd_local[u].ctx # NULL
         /\ peer[scd_local[u].ctx] = launched

\* agent_card_killscd returns.
KillReturns(t) == pc[t] # "ret" /\ pc'[t] = "ret" /\ op'[t] = "killscd"

KeyOf(line) == Word(line, 2)
CryptogramOf(line) == Word(line, 3)

\* A PINCACHE_PUT line arrived in task t's transaction, and no allocation
\* and no cipher call failed.
PutArrived(t) ==
  /\ status[t].n > 0
  /\ status[t].line[1] = PINCACHE_PUT
  /\ status[t].fails = {}

\* It arrived in the transaction of a card operation: the status callback
\* of the transaction, if it has one, was called with it.
PutHandled(t) == PutArrived(t) /\ pc[t] \notin NoCallbackCalls

\* C18 as stated: a PINCACHE_PUT status line with a key token of at least
\* 3 characters and no cryptogram makes the status callback call
\* agent_put_cache once, with that key and no value, in the transaction of
\* any card operation.
C18_EmptyCryptogramFlushes ==
  \A t \in Tasks :
    (/\ PutHandled(t)
     /\ Len(KeyOf(status[t].line)) >= MinKeyLen
     /\ Len(CryptogramOf(status[t].line)) = 0)
      => status[t].put = agent_put_cache(KeyOf(status[t].line), FALSE, 0)

\* Such a line arrived in the PKDECRYPT transaction of agent_card_pkdecrypt
\* and agent_put_cache was not called.
C18_Witness ==
  \E t \in Tasks :
    /\ PutHandled(t)
    /\ op[t] = "pkdecrypt" /\ left[t] = 1
    /\ Len(KeyOf(status[t].line)) >= MinKeyLen
    /\ Len(CryptogramOf(status[t].line)) = 0
    /\ ~ status[t].put.called
    /\ status[t].err = OK

\* C19 as stated: a PINCACHE_PUT status line whose key token has less than
\* 3 characters, or whose cryptogram has at least one and less than 48
\* characters, makes the status callback return 0 without a call of
\* agent_put_cache.
C19_ShortIsIgnored ==
  \A t \in Tasks :
    (/\ PutHandled(t)
     /\ \/ Len(KeyOf(status[t].line)) < MinKeyLen
        \/ /\ Len(CryptogramOf(status[t].line)) > 0
           /\ Len(CryptogramOf(status[t].line)) < MinHexLen)
      => (status[t].err = OK /\ ~ status[t].put.called)

\* A PINCACHE_PUT line without a key token arrived in the PKDECRYPT
\* transaction and agent_put_cache was called to flush the key
\* "PINCACHE_PUT".
C19_Witness ==
  \E t \in Tasks :
    /\ PutHandled(t)
    /\ op[t] = "pkdecrypt"
    /\ Len(KeyOf(status[t].line)) = 0
    /\ status[t].put = agent_put_cache(PINCACHE_PUT, FALSE, 0)

\* The callback that was called gives handle_pincache_put the words after
\* the keyword: every one but padding_info_cb, and card_getattr_cb while
\* the attribute is not yet found.
PassesArguments(t) == op[t] # "pkdecrypt" /\ ~ status[t].seen

\* The cryptogram c is long enough and is not converted or not unwrapped.
BadCryptogram(c) ==
  /\ Len(c) >= MinHexLen
  /\ hex2bin(c, Len(c) \div 2) = -1 \/ c \notin Wrapped

C21_SameEffectInEveryCallback ==
  \A t \in Tasks :
    (PutHandled(t) /\ HasStatusCb(op[t], left[t]))
      => /\ status[t].put = handle_pincache_put(Tail(status[t].line), {}).put
         /\ status[t].err = handle_pincache_put(Tail(status[t].line), {}).err

\* card_getattr_cb was called with the PINCACHE_PUT line of a wrapped PIN
\* after the attribute had been found, and nothing was put into the cache.
C21_Witness ==
  \E t \in Tasks :
    /\ PutHandled(t)
    /\ op[t] = "getattr"
    /\ status[t].seen
    /\ status[t].line = PutLine
    /\ ~ status[t].put.called

\* C30: start_scd called for a session that has a connection (the daemon
\* not being disabled) returns 0 in that step with in_use set and nothing
\* else changed: not the lock, whoever holds it, not the session's ctx, the
\* other sessions, the list, primary_scd_ctx, the reusable flag or
\* socket_name, and no context or daemon is made, connected or released.
C30_FastPath ==
  [][ \A t \in Tasks :
        (/\ pc[t] = "idle"
         /\ op'[t] = "start_scd"
         /\ scd_local[t].ctx # NULL
         /\ ~ disable_scdaemon)
          => /\ pc'[t] = "ret"
             /\ ret'[t] = OK
             /\ via'[t] = "fast"
             /\ scd_local' = [scd_local EXCEPT ![t].in_use = TRUE]
             /\ UNCHANGED << registry, start_scd_lock, live, peer, daemons,
                             cache >> ]_vars

\* start_scd has returned by the fast path while another task holds
\* start_scd_lock.
C30_Witness ==
  \E t \in Tasks :
    /\ pc[t] = "ret" /\ op[t] = "start_scd" /\ via[t] = "fast"
    /\ ret[t] = OK
    /\ scd_local[t].in_use /\ scd_local[t].ctx # NULL
    /\ start_scd_lock \notin {NULL, t}

C23_PassedThruOnce ==
  LET OtherLines ==
        SelectSeq(exchange.arrived,
                  LAMBDA a : a.type = "S" /\ a.line[1] # PINCACHE_PUT)
      WrittenUpstream ==
        SelectSeq(exchange.calls,
                  LAMBDA u : u.call \in {"assuan_write_line",
                                         "assuan_write_status"})
  IN
  \A t \in Tasks :
    op[t] = "scd" =>
      /\ \A i \in 1 .. Len(WrittenUpstream) :
           WrittenUpstream[i].keyword # PINCACHE_PUT
      /\ Len(WrittenUpstream) = Len(OtherLines)
      /\ \A i \in 1 .. Len(OtherLines) :
           LET l == OtherLines[i].line
               u == WrittenUpstream[i] IN
           IF l[1] = Comment
             THEN u.call = "assuan_write_line" /\ u.args = l
             ELSE /\ u.call = "assuan_write_status"
                  /\ u.args = Tail(l)
                  /\ Len(u.keyword) <= Len(l[1])
                  /\ u.keyword = SubSeq(l[1], 1, Len(u.keyword))
                  /\ Len(l[1]) < KeywordSize => u.keyword = l[1]

\* A comment line, a PINCACHE_PUT line that put a PIN into the cache and a
\* PADDING line arrived in a raw passthrough transaction, and two lines
\* went upstream.
C23_Witness ==
  \E t \in Tasks :
    /\ op[t] = "scd"
    /\ pc[t] = "transact"
    /\ cache # {}
    /\ exchange.arrived = << Arrived("S", << Comment, KeyToken(1) >>),
                             Arrived("S", PutLine),
                             Arrived("S", << PADDING, KeyToken(1) >>) >>
    /\ Len(exchange.calls) = 2
    /\ exchange.calls[2].keyword = PADDING

C25_Serialno ==
  LET lines == SelectSeq(exchange.arrived,
                         LAMBDA a : a.line[1] = Chars("SERIALNO"))
      payload == Word(lines[1].line, 2)
      wellformed ==
        /\ Len(payload) > 0
        /\ Len(payload) % 2 = 0
        /\ \A i \in 1 .. Len(payload) : payload[i] \in HexDigits
  IN
  \A t \in Tasks :
    (op[t] = "serialno" /\ pc[t] = "unlock") =>
      /\ Len(lines) <= 2
      /\ (Len(lines) >= 1 /\ ~ wellformed)
           => /\ err[t] = GPG_ERR_ASS_PARAMETER
              /\ Len(lines) = 1
              /\ exchange.arrived[Len(exchange.arrived)] = lines[1]
      /\ Len(lines) = 2 => err[t] = GPG_ERR_CONFLICT
      /\ err[t] = GPG_ERR_CONFLICT => Len(lines) = 2 /\ wellformed
      /\ err[t] = GPG_ERR_ASS_PARAMETER => Len(lines) = 1 /\ ~ wellformed
      /\ err[t] # OK => exchange.out.ptr # "value"
      /\ (err[t] = OK /\ Len(lines) = 1)
           => exchange.out = Out("value", payload)

\* A second SERIALNO line arrived and agent_card_serialno has failed with
\* GPG_ERR_CONFLICT.
C25_Witness ==
  \E t \in Tasks :
    /\ op[t] = "serialno" /\ pc[t] = "unlock"
    /\ err[t] = GPG_ERR_CONFLICT
    /\ Len(exchange.arrived) = 2
    /\ exchange.arrived[1].line[1] = Chars("SERIALNO")
    /\ exchange.out.ptr = "untouched"

C27_Sign ==
  LET Inq(ks) ==
        SelectSeq(exchange.arrived,
                  LAMBDA a : a.type = "INQUIRE"
                               /\ \E k \in ks : a.line[1] = Chars(k))
      asked == SelectSeq(exchange.calls, LAMBDA u : u.call = "getpin_cb")
      pins == SelectSeq(exchange.calls,
                        LAMBDA u : u.call = "assuan_send_data to scd")
      prompts == Inq({"NEEDPIN", "POPUPPINPADPROMPT", "DISMISSPINPADPROMPT"})
  IN
  \A t \in Tasks :
    op[t] = "pksign" =>
      /\ exchange.sent
           \in { << >>, << "SETDATA" >>, << "SETDATA", "PKSIGN" >> }
      /\ Len(exchange.sent) = 2 => exchange.results[1] = OK
      /\ (pc[t] = "unlock" /\ left[t] = 0 /\ err[t] = GPG_ERR_GENERAL)
           => exchange.sent = << >>
      /\ Len(asked) = Len(prompts)
      /\ \A i \in 1 .. Len(asked) :
           /\ asked[i].keyword = << "desc_text" >>
           /\ prompts[i].line[1] = Chars("NEEDPIN")
                => asked[i].args = Tail(prompts[i].line)
      /\ Len(asked) > 0 => Len(exchange.sent) = 2
      /\ exchange.out.ptr = "value"
           => /\ exchange.sent = << "SETDATA", "PKSIGN" >>
              /\ exchange.results = << OK, OK >>
              /\ Len(pins) = Len(Inq({"NEEDPIN"}))

\* agent_card_pksign has stored a signature after SETDATA, PKSIGN, a
\* NEEDPIN inquiry answered with a PIN, and a data line.
C27_Witness ==
  \E t \in Tasks :
    /\ op[t] = "pksign" /\ pc[t] = "unlock" /\ err[t] = OK
    /\ exchange.sent = << "SETDATA", "PKSIGN" >>
    /\ exchange.arrived
         = << Arrived("INQUIRE", << Chars("NEEDPIN"), KeyToken(1) >>),
              Arrived("D", << "d" >>) >>
    /\ exchange.calls
         = << Passed("getpin_cb", << "desc_text" >>, << KeyToken(1) >>),
              Passed("assuan_send_data to scd", << >>, << "pin" >>) >>
    /\ exchange.out = Out("value", << "d" >>)

\* C29: inq_needpin, in the operations that give it to assuan_transact
\* (agent_card_scd with passthru set, agent_card_pksign and
\* agent_card_pkdecrypt without).  A NEEDPIN, POPUPPINPADPROMPT,
\* DISMISSPINPADPROMPT or PINCACHE_GET inquiry is never passed to the
\* client; the first three call the PIN callback once each, PINCACHE_GET
\* calls nothing and sends nothing.  Any other inquiry is passed to the
\* client once, in the order of arrival, when passthru is set, and when it
\* is not the operation fails with GPG_ERR_ASS_UNKNOWN_INQUIRE at that
\* inquiry and the PIN callback is not called for it.
C29_Inquiries ==
  LET local == { Chars(k) : k \in {"NEEDPIN", "POPUPPINPADPROMPT",
                                   "DISMISSPINPADPROMPT", "PINCACHE_GET"} }
      inquiries == SelectSeq(exchange.arrived, LAMBDA a : a.type = "INQUIRE")
      others == SelectSeq(inquiries, LAMBDA a : a.line[1] \notin local)
      prompts == SelectSeq(inquiries,
                           LAMBDA a : a.line[1] \in local
                                        /\ a.line[1] # Chars("PINCACHE_GET"))
      needpins == SelectSeq(inquiries, LAMBDA a : a.line[1] = Chars("NEEDPIN"))
      asked == SelectSeq(exchange.calls, LAMBDA u : u.call = "getpin_cb")
      passed == SelectSeq(exchange.calls, LAMBDA u : u.call = "assuan_inquire")
      data == SelectSeq(exchange.calls,
                        LAMBDA u : u.call = "assuan_send_data to scd")
  IN
  \A t \in Tasks :
    op[t] \in {"scd", "pksign", "pkdecrypt"} =>
      /\ Len(asked) = Len(prompts)
      /\ Len(data) <= Len(needpins) + Len(passed)
      /\ IF op[t] = "scd"
           THEN /\ Len(passed) = Len(others)
                /\ \A i \in 1 .. Len(others) : passed[i].args = others[i].line
           ELSE /\ passed = << >>
                /\ others # << >>
                     => /\ Len(others) = 1
                        /\ exchange.arrived[Len(exchange.arrived)] = others[1]
                        /\ pc[t] \in {"unlock", "ret"}
                        /\ err[t] = GPG_ERR_ASS_UNKNOWN_INQUIRE
                        /\ pc[t] = "ret"
                             => ret[t] = GPG_ERR_ASS_UNKNOWN_INQUIRE

\* In agent_card_scd a PINCACHE_GET, a NEEDPIN and a KEYDATA inquiry have
\* arrived: the PIN callback was called once and the PIN sent, and KEYDATA
\* was passed to the client and its value sent.
C29_Witness ==
  \E t \in Tasks :
    /\ op[t] = "scd" /\ pc[t] = "transact"
    /\ exchange.arrived
         = << Arrived("INQUIRE", << Chars("PINCACHE_GET"), KeyToken(1) >>),
              Arrived("INQUIRE", << Chars("NEEDPIN"), KeyToken(1) >>),
              Arrived("INQUIRE", << Chars("KEYDATA"), KeyToken(1) >>) >>
    /\ exchange.calls
         = << Passed("getpin_cb", << >>, << KeyToken(1) >>),
              Passed("assuan_send_data to scd", << >>, << "pin" >>),
              Passed("assuan_inquire", << >>,
                     << Chars("KEYDATA"), KeyToken(1) >>),
              Passed("assuan_send_data to scd", << >>, << "value" >>) >>

\* C28: in a decrypt operation, for every input (of 0 bytes, of 1 byte, of
\* several lines), the hex payloads of the SETDATA lines sent, decoded and
\* put one after the other, are the bytes of the input sent so far, and are
\* the whole input once PKDECRYPT is sent; the first SETDATA line is plain
\* and every later one has --append; every line, with its line end, fits
\* in the line length; PKDECRYPT is the last line sent and is sent only
\* after every line before it has succeeded.
C28_Chunks ==
  LET sent == exchange.sent
      Cut(l) == CHOOSE k \in 1 .. Len(l) :
                  l[k] = " " /\ \A j \in k + 1 .. Len(l) : l[j] # " "
      Start(l) == SubSeq(l, 1, Cut(l))
      Payload(l) == SubSeq(l, Cut(l) + 1, Len(l))
      Val(c) == CHOOSE v \in 0 .. 15 :
                  << "0", "1", "2", "3", "4", "5", "6", "7", "8", "9",
                     "A", "B", "C", "D", "E", "F" >>[v + 1] = c
      Decode(h) == [i \in 1 .. Len(h) \div 2 |->
                      Val(h[2 * i - 1]) * 16 + Val(h[2 * i])]
      IsSetdata(l) == SubSeq(l, 1, 8) = Chars("SETDATA ")
      IsDecrypt(l) == SubSeq(l, 1, 10) = Chars("PKDECRYPT ")
      Uploaded[i \in 0 .. Len(sent)] ==
        IF i = 0 THEN << >>
        ELSE IF IsSetdata(sent[i])
        THEN Uploaded[i - 1] \o Decode(Payload(sent[i]))
        ELSE Uploaded[i - 1]
  IN
  /\ \A i \in 1 .. Len(sent) :
       /\ Len(sent[i]) + 2 <= LineLength
       /\ IsSetdata(sent[i]) \/ IsDecrypt(sent[i])
       /\ IsSetdata(sent[i]) =>
            /\ Start(sent[i]) = IF i = 1 THEN Chars("SETDATA ")
                                ELSE Chars("SETDATA ") \o Chars("--append ")
            /\ Len(Payload(sent[i])) % 2 = 0
            /\ Len(Payload(sent[i])) > 0
       /\ IsDecrypt(sent[i]) =>
            /\ i = Len(sent)
            /\ \A j \in 1 .. i - 1 :
                 IsSetdata(sent[j]) /\ exchange.results[j] = OK
            /\ Uploaded[i] = exchange.indata
  /\ Uploaded[Len(sent)] =
       SubSeq(exchange.indata, 1, Len(Uploaded[Len(sent)]))

\* C28: an input of three lines of SETDATA has been sent whole, PKDECRYPT
\* after it, and every transaction has ended.
C28_Witness ==
  /\ Len(exchange.sent) = 4
  /\ exchange.sent[4][1] = "P"
  /\ exchange.sent[3][1] = "S"
  /\ Len(exchange.indata) = LineLength - LineReserve + 1
  /\ Len(exchange.results) = 4


\* C31: whenever start_scd has returned success and unlock_scd has not
\* been called since, the session's connection is not null, is allocated,
\* and is one on which a connect succeeded: the primary connection taken
\* for reuse, one connected to the socket, or the pipe of a daemon just
\* started.
C31_AcquiredIsConnected ==
  \A t \in Tasks :
    (acquired[t] /\ pc[t] \notin InStart)
      => /\ scd_local[t].ctx # NULL
         /\ scd_local[t].ctx \in live
         /\ peer[scd_local[t].ctx] # NULL

\* C31: a card operation is about to send its first command on a context
\* that start_scd allocated and never connected.
C31_Witness ==
  \E t \in Tasks :
    /\ pc[t] = "transact" /\ op[t] = "learn" /\ acquired[t]
    /\ scd_local[t].ctx \in live
    /\ peer[scd_local[t].ctx] = NULL
    /\ launched = 0


\* C32: in every state primary_scd_ctx, when not null, is a context that
\* has not been released, and so is the connection of every session; a
\* failure to create wait_child_thread after the daemon was started leaves
\* no pointer to a released context behind.
C32_NoReleasedPointer ==
  /\ primary_scd_ctx # NULL => primary_scd_ctx \in live
  /\ \A t \in Tasks : scd_local[t].ctx # NULL => scd_local[t].ctx \in live

\* C32: agent_card_killscd is inside assuan_transact on the primary
\* context, which start_scd released after npth_create had failed.
C32_Witness ==
  \E t \in Tasks :
    /\ pc[t] = "killscd" /\ ctx[t] = primary_scd_ctx
    /\ primary_scd_ctx \notin live
    /\ launched = 1 /\ reaper[1] = "none"


\* C33: after the cleanup of wait_child_thread for a daemon, every context
\* connected to that daemon has been released or is the connection of a
\* session that is in use (and releases it in unlock_scd), or is the ctx
\* of a start_scd that is about to release it; that holds for a primary
\* connection that was reusable when the daemon exited, too.
C33_NoLostContext ==
  \A d \in Daemons :
    reaper[d] = "done"
      => \A c \in live :
           peer[c] = d
             => \/ \E t \in Tasks :
                     scd_local[t].ctx = c /\ scd_local[t].in_use
                \/ \E t \in Tasks : pc[t] = "start_err" /\ ctx[t] = c

\* C33: the cleanup for a daemon is done, and the context that was its
\* reusable primary connection is still allocated while no session, no
\* task and no variable of the file points to it.
C33_Witness ==
  \E d \in Daemons, c \in live :
    /\ reaper[d] = "done" /\ peer[c] = d
    /\ primary_scd_ctx = NULL
    /\ \A t \in Tasks : scd_local[t].ctx # c /\ ctx[t] # c
    /\ \A t \in Tasks : pc[t] = "idle"


\* C34: at most one transaction is in flight on a context at any time: no
\* two tasks are inside assuan_transact on the same context, whether in a
\* card operation, in the GETINFO or OPTION of start_scd, in the RESTART
\* of agent_reset_scd or in the KILLSCD of agent_card_killscd.
C34_OneTransaction ==
  LET InFlight(t) ==
        CASE pc[t] = "transact" -> scd_local[t].ctx
          [] pc[t] \in {"getinfo", "option", "killscd"} -> ctx[t]
          [] pc[t] = "restart" -> primary_scd_ctx
          [] OTHER -> NULL IN
  \A t, u \in Tasks :
    (t # u /\ InFlight(t) # NULL) => InFlight(t) # InFlight(u)

\* C34: a task is inside the transaction of a card operation on its
\* session's connection, which is the primary one, and another task is
\* inside the KILLSCD transaction on the same context.
C34_Witness ==
  \E t, u \in Tasks :
    /\ t # u
    /\ pc[t] = "transact" /\ scd_local[t].ctx = primary_scd_ctx
    /\ primary_scd_ctx \in live
    /\ pc[u] = "killscd" /\ ctx[u] = primary_scd_ctx


C36_Registry ==
  [][ LET Times(list, t) ==
            Cardinality({ i \in 1 .. Len(list) : list[i] = t })
          Without(list, t) ==
            \E i \in 1 .. Len(list) :
              /\ list[i] = t
              /\ scd_local_list' = SubSeq(list, 1, i - 1)
                                     \o SubSeq(list, i + 1, Len(list)) IN
      /\ \A t \in Tasks :
           /\ Times(scd_local_list, t) = IF scd_local[t].has THEN 1 ELSE 0
           /\ Times(scd_local_list', t) = IF scd_local'[t].has THEN 1 ELSE 0
      /\ \A t \in Tasks :
           (~ scd_local[t].has /\ scd_local'[t].has)
             => /\ pc[t] = "start_lock"
                /\ scd_local_list' = << t >> \o scd_local_list
      /\ \A t \in Tasks :
           (scd_local[t].has /\ ~ scd_local'[t].has)
             => /\ op'[t] = "reset" /\ pc'[t] = "ret"
                /\ Without(scd_local_list, t)
      /\ (\A t \in Tasks : scd_local[t].has = scd_local'[t].has)
           => scd_local_list' = scd_local_list
      /\ (\E d \in Daemons : reaper'[d] # reaper[d])
           => scd_local_list' = scd_local_list ]_vars

\* C36: two sessions were in the list; agent_reset_scd of one has returned
\* and the list holds the other, which is in use, alone.
C36_Witness ==
  \E t, u \in Tasks :
    /\ op[t] = "reset" /\ pc[t] = "ret" /\ ~ scd_local[t].has
    /\ scd_local_list = << u >>
    /\ scd_local[u].in_use /\ pc[u] = "transact"
    /\ \E d \in Daemons : reaper[d] = "done"


\* C37: every PIN in the cache was put by a PINCACHE_PUT line of the daemon
\* that runs now: the cache holds no PIN of a daemon for whose exit
\* wait_child_thread has flushed the cache, and none of a daemon started
\* before the last one.
C37_OnlyCurrentDaemon ==
  \A d \in cache :
    /\ reaper[d] \notin {"lock", "done"}
    /\ d = launched

\* C37: the cleanup for the first daemon is done and a second daemon runs,
\* and the cache holds a PIN that a session, in use since before the exit,
\* got from the first daemon.
C37_Witness ==
  \E t \in Tasks :
    /\ 1 \in cache /\ reaper[1] = "done"
    /\ launched = 2 /\ 2 \in running
    /\ pc[t] = "transact" /\ scd_local[t].invalid
    /\ peer[scd_local[t].ctx] = 1


\* C38: blob_filecopy called for an insert when no keybox file exists
\* creates the file with the inserted blob alone and returns success.
C38_InsertCreates ==
  (kbx.pc = "ret" /\ kbx.mode = 1 /\ kbx.orig = NoFile)
    => /\ kbx.rc = OK
       /\ kbx.fname = File(<< kbx.blob >>)

\* C38: an insert was called while no keybox file existed and has returned
\* the error of access; there is still no keybox file.
C38_Witness ==
  /\ kbx.pc = "ret" /\ kbx.mode = 1 /\ kbx.orig = NoFile
  /\ kbx.rc = GPG_ERR_ENOENT
  /\ kbx.fname = NoFile

\* C39: when blob_filecopy returns an error for a keybox file that existed,
\* the file is still there under its name with the content it had; when
\* it returns success the file has the new content, and unless the keybox
\* is a secret one the backup file has the old content.
C39_ErrorKeepsFile ==
  (kbx.pc = "ret" /\ kbx.orig # NoFile)
    => /\ kbx.rc # OK => kbx.fname = kbx.orig
       /\ kbx.rc = OK
            => /\ kbx.fname = Copied(kbx.mode, kbx.orig, kbx.blob,
                                     kbx.start_offset)
               /\ ~ kbx.secret => kbx.bakfname = kbx.orig

\* C39: blob_filecopy has returned an error for a keybox that is not
\* secret, and no file has the name of the keybox file: the old content is
\* under the backup name, the new one under the temporary name.
C39_Witness ==
  /\ kbx.pc = "ret" /\ kbx.rc # OK /\ ~ kbx.secret
  /\ kbx.orig # NoFile
  /\ kbx.fname = NoFile
  /\ kbx.bakfname = kbx.orig
  /\ kbx.tmpfname = Copied(kbx.mode, kbx.orig, kbx.blob, kbx.start_offset)

====
